---- MODULE Spec2Model ----
(***************************************************************************)
(* World-info activation (nanobot/sillytavern/world_info.py) and the       *)
(* structured memory store (nanobot/sillytavern/memory.py).                *)
(*                                                                         *)
(* A Python str is modelled as a sequence of one-character strings, so     *)
(* that strip, lower, substring search, word boundaries and tokenisation   *)
(* are computed rather than assumed.                                       *)
(***************************************************************************)
EXTENDS Integers, Sequences, FiniteSets, TLC

(***************************************************************************)
(* Strings                                                                 *)
(***************************************************************************)

UpperChars == <<"A", "B", "C", "D", "E", "F", "G", "H", "I", "J", "K", "L", "M",
                "N", "O", "P", "Q", "R", "S", "T", "U", "V", "W", "X", "Y", "Z">>

LowerChars == <<"a", "b", "c", "d", "e", "f", "g", "h", "i", "j", "k", "l", "m",
                "n", "o", "p", "q", "r", "s", "t", "u", "v", "w", "x", "y", "z">>

DigitChars == {"0", "1", "2", "3", "4", "5", "6", "7", "8", "9"}

Range(s) == {s[i] : i \in DOMAIN s}

SpaceChars == {" ", "\t", "\n"}

WordChars == Range(UpperChars) \cup Range(LowerChars) \cup DigitChars \cup {"_"}

LowerOf == [c \in Range(UpperChars) |->
               LowerChars[CHOOSE i \in DOMAIN UpperChars : UpperChars[i] = c]]

\* str.isspace for one character
IsSpace(c) == c \in SpaceChars

\* the regex class \w for one character
IsWordChar(c) == c \in WordChars

\* str.lower for one character
LowerChar(c) == IF c \in DOMAIN LowerOf THEN LowerOf[c] ELSE c

\* str.lower
Lower(s) == [i \in 1..Len(s) |-> LowerChar(s[i])]

\* str.strip
Strip(s) ==
    LET keep == {i \in 1..Len(s) : ~IsSpace(s[i])}
    IN  IF keep = {} THEN <<>>
        ELSE LET lo == CHOOSE i \in keep : \A j \in keep : i <= j
                 hi == CHOOSE i \in keep : \A j \in keep : j <= i
             IN  SubSeq(s, lo, hi)

\* needle in hay
Contains(hay, needle) ==
    \E i \in 0..(Len(hay) - Len(needle)) : SubSeq(hay, i + 1, i + Len(needle)) = needle

\* the regex assertion \b between position p and p + 1 of s (0 <= p <= Len(s))
WordBoundary(s, p) ==
    LET before == p >= 1 /\ IsWordChar(s[p])
        after == p < Len(s) /\ IsWordChar(s[p + 1])
    IN  before # after

\* re.search(r"\b" + re.escape(key) + r"\b", context, flags)
WordSearch(key, context, case_sensitive) ==
    LET k == IF case_sensitive THEN key ELSE Lower(key)
        c == IF case_sensitive THEN context ELSE Lower(context)
    IN  \E i \in 0..(Len(c) - Len(k)) :
            /\ SubSeq(c, i + 1, i + Len(k)) = k
            /\ WordBoundary(context, i)
            /\ WordBoundary(context, i + Len(k))

\* an optional argument: <<>> is None, <<v>> is the value v
None == <<>>
Some(v) == <<v>>

(***************************************************************************)
(* World info: key matching                                                *)
(***************************************************************************)

\* mutant: match_whole_words is ignored
key_matches_substring_only(key, context, case_sensitive, whole_words) ==
    IF Strip(key) = <<>> THEN FALSE
    ELSE IF case_sensitive THEN Contains(context, key)
    ELSE Contains(Lower(context), Lower(key))

\* _key_matches
key_matches(key, context, case_sensitive, whole_words) ==
    IF Strip(key) = <<>> THEN FALSE
    ELSE IF whole_words THEN WordSearch(key, context, case_sensitive)
    ELSE IF case_sensitive THEN Contains(context, key)
    ELSE Contains(Lower(context), Lower(key))

\* _any_key_matches
any_key_matches(keys, context, case_sensitive, whole_words) ==
    \E i \in DOMAIN keys : key_matches(keys[i], context, case_sensitive, whole_words)

(***************************************************************************)
(* World info: activation of one entry                                     *)
(***************************************************************************)

\* mutant: AND_ALL and NOT_ALL exchanged
check_selective_swapped(entry, context) ==
    LET m == [i \in DOMAIN entry.keysecondary |->
                 key_matches(entry.keysecondary[i], context,
                             entry.case_sensitive, entry.match_whole_words)]
        logic == entry.selective_logic
    IN  IF logic = 0 THEN \E i \in DOMAIN m : m[i]
        ELSE IF logic = 1 THEN \A i \in DOMAIN m : m[i]
        ELSE IF logic = 2 THEN ~(\E i \in DOMAIN m : m[i])
        ELSE IF logic = 3 THEN ~(\A i \in DOMAIN m : m[i])
        ELSE TRUE

\* mutant: an unknown logic code rejects the entry
check_selective_unknown_rejects(entry, context) ==
    LET m == [i \in DOMAIN entry.keysecondary |->
                 key_matches(entry.keysecondary[i], context,
                             entry.case_sensitive, entry.match_whole_words)]
        logic == entry.selective_logic
    IN  IF logic = 0 THEN \E i \in DOMAIN m : m[i]
        ELSE IF logic = 1 THEN ~(\A i \in DOMAIN m : m[i])
        ELSE IF logic = 2 THEN ~(\E i \in DOMAIN m : m[i])
        ELSE IF logic = 3 THEN \A i \in DOMAIN m : m[i]
        ELSE FALSE

\* _check_selective
check_selective(entry, context) ==
    LET secondary_matches == [i \in DOMAIN entry.keysecondary |->
                                 key_matches(entry.keysecondary[i], context,
                                             entry.case_sensitive, entry.match_whole_words)]
        logic == entry.selective_logic
    IN  IF logic = 0 THEN \E i \in DOMAIN secondary_matches : secondary_matches[i]
        ELSE IF logic = 1 THEN ~(\A i \in DOMAIN secondary_matches : secondary_matches[i])
        ELSE IF logic = 2 THEN ~(\E i \in DOMAIN secondary_matches : secondary_matches[i])
        ELSE IF logic = 3 THEN \A i \in DOMAIN secondary_matches : secondary_matches[i]
        ELSE TRUE

\* bounds of random.randint(1, 100)
RandLo == 1
RandHi == 100

\* the outcomes of random.randint(1, 100) the model draws from: both ends
\* and the two values around the probability 50 used by the inputs
RandInts == {RandLo, 50, 51, RandHi}

\* mutant: a constant entry draws as well
draws_random_constant_too(entry) ==
    /\ entry.key # <<>>
    /\ entry.use_probability
    /\ entry.probability < 100

\* the entry reaches the random.randint call of _check_entry_activation
draws_random(entry) ==
    /\ ~entry.constant
    /\ entry.key # <<>>
    /\ entry.use_probability
    /\ entry.probability < 100

\* mutant: the probability gate is evaluated before the constant shortcut
check_entry_activation_gate_first(entry, context, r) ==
    IF entry.use_probability /\ entry.probability < 100 /\ r > entry.probability THEN FALSE
    ELSE IF entry.constant THEN TRUE
    ELSE IF entry.key = <<>> THEN FALSE
    ELSE IF ~any_key_matches(entry.key, context, entry.case_sensitive, entry.match_whole_words)
    THEN FALSE
    ELSE IF entry.selective /\ entry.keysecondary # <<>> THEN check_selective(entry, context)
    ELSE TRUE

\* mutant: an entry without keys is taken to match everything
check_entry_activation_no_keys_active(entry, context, r) ==
    IF entry.constant THEN TRUE
    ELSE IF entry.key = <<>> THEN TRUE
    ELSE IF entry.use_probability /\ entry.probability < 100 /\ r > entry.probability THEN FALSE
    ELSE IF ~any_key_matches(entry.key, context, entry.case_sensitive, entry.match_whole_words)
    THEN FALSE
    ELSE IF entry.selective /\ entry.keysecondary # <<>> THEN check_selective(entry, context)
    ELSE TRUE

\* mutant: a draw equal to the probability fails the gate
check_entry_activation_gate_inclusive(entry, context, r) ==
    IF entry.constant THEN TRUE
    ELSE IF entry.key = <<>> THEN FALSE
    ELSE IF entry.use_probability /\ entry.probability < 100 /\ r >= entry.probability THEN FALSE
    ELSE IF ~any_key_matches(entry.key, context, entry.case_sensitive, entry.match_whole_words)
    THEN FALSE
    ELSE IF entry.selective /\ entry.keysecondary # <<>> THEN check_selective(entry, context)
    ELSE TRUE

\* _check_entry_activation; r is the value random.randint returns if it is called
check_entry_activation(entry, context, r) ==
    IF entry.constant THEN TRUE
    ELSE IF entry.key = <<>> THEN FALSE
    ELSE IF entry.use_probability /\ entry.probability < 100 /\ r > entry.probability THEN FALSE
    ELSE IF ~any_key_matches(entry.key, context, entry.case_sensitive, entry.match_whole_words)
    THEN FALSE
    ELSE IF entry.selective /\ entry.keysecondary # <<>> THEN check_selective(entry, context)
    ELSE TRUE

(***************************************************************************)
(* World info: get_activated_entries                                       *)
(***************************************************************************)

\* WorldInfoConfig().max_entries
DefaultMaxEntries == 10

\* list.sort(key=lambda e: e.order) on a list of positions of `entries`:
\* insertion after the last element whose order is not greater (stable)
RECURSIVE sort_by_order(_, _)
sort_by_order(idx, entries) ==
    IF idx = <<>> THEN <<>>
    ELSE LET n == Len(idx)
             x == idx[n]
             rest == sort_by_order(SubSeq(idx, 1, n - 1), entries)
             p == Cardinality({j \in DOMAIN rest : entries[rest[j]].order <= entries[x].order})
         IN  SubSeq(rest, 1, p) \o <<x>> \o SubSeq(rest, p + 1, Len(rest))

\* mutant: the sort is left out
sorted_activated_unsorted(idx, entries) == idx

\* activated.sort(key=lambda e: e.order)
sorted_activated(idx, entries) == sort_by_order(idx, entries)

\* mutant: the disable guard is left out
passes_guards_no_disable(entry) == Strip(entry.content) # <<>>

\* mutant: the content is tested without strip()
passes_guards_unstripped(entry) == ~entry.disable /\ entry.content # <<>>

\* the entries that pass the two guards at the head of the loop body
passes_guards(entry) == ~entry.disable /\ Strip(entry.content) # <<>>

\* the positions of the loop whose entry is appended to `activated`
\* (draw[i] is what random.randint returns for entry i)
activated_positions(entries, context, draw) ==
    SelectSeq([i \in 1..Len(entries) |-> i],
              LAMBDA i : /\ passes_guards(entries[i])
                         /\ check_entry_activation(entries[i], context,
                                IF i \in DOMAIN draw THEN draw[i] ELSE RandLo))

\* mutant: the list is cut before it is sorted
get_activated_entries_cut_first(entries, context, max_entries, draw) ==
    LET activated == activated_positions(entries, context, draw)
    IN  IF max_entries > 0 /\ Len(activated) > max_entries
        THEN sorted_activated(SubSeq(activated, 1, max_entries), entries)
        ELSE sorted_activated(activated, entries)

\* get_activated_entries: the result as positions of book.entries.values()
get_activated_entries(entries, context, max_entries, draw) ==
    LET activated == sorted_activated(activated_positions(entries, context, draw), entries)
    IN  IF max_entries > 0 /\ Len(activated) > max_entries
        THEN SubSeq(activated, 1, max_entries)
        ELSE activated

\* mutant: the book's own entries are put in order
book_entries_after_sorted_in_place(entries) ==
    LET sorted == sort_by_order([i \in 1..Len(entries) |-> i], entries)
    IN  [p \in 1..Len(entries) |-> entries[sorted[p]]]

\* book.entries.values() after get_activated_entries: the loop only reads the
\* entries, and the sort and the slice work on the new list `activated`
book_entries_after(entries) == entries

(***************************************************************************)
(* World info: the enabled books of the index and the context builder      *)
(***************************************************************************)

\* get_world_info(book_id): the stored book, or None when worldinfo/<id>.json
\* is not there
get_world_info(files, book_id) ==
    IF book_id \in DOMAIN files THEN Some(files[book_id]) ELSE None

\* get_enabled_world_info: the index positions, in index order, of the
\* entries that are enabled and whose book loads
get_enabled_world_info(index, files) ==
    SelectSeq([b \in 1..Len(index) |-> b],
              LAMBDA b : index[b].enabled /\ get_world_info(files, index[b].id) # None)

\* the draws of book b: draw is keyed by <<book, entry>>
draws_of(draw, b, entries) ==
    [i \in {j \in DOMAIN entries : <<b, j>> \in DOMAIN draw} |-> draw[<<b, i>>]]

\* the loop over wi_books: each book's get_activated_entries result under
\* the default config, appended to all_activated; an element is <<book, entry>>
RECURSIVE all_activated(_, _, _, _, _)
all_activated(wi_books, index, files, context, draw) ==
    IF wi_books = <<>> THEN <<>>
    ELSE LET b == wi_books[1]
             entries == files[index[b].id]
             activated == get_activated_entries(entries, context, DefaultMaxEntries,
                                                draws_of(draw, b, entries))
         IN  [p \in 1..Len(activated) |-> <<b, activated[p]>>]
             \o all_activated(Tail(wi_books), index, files, context, draw)

\* mutant: the concatenation is put in order across the books
world_info_step_sorted_across(index, files, context, draw) ==
    LET concat == all_activated(get_enabled_world_info(index, files), index, files,
                                context, draw)
        orders == [p \in 1..Len(concat) |-> [order |-> files[index[concat[p][1]].id][concat[p][2]].order]]
        sorted == sort_by_order([p \in 1..Len(concat) |-> p], orders)
    IN  [p \in 1..Len(concat) |-> concat[sorted[p]]]

\* step 2 of _build_sillytavern_context: the entries handed to
\* build_world_info_prompt
world_info_step(index, files, context, draw) ==
    all_activated(get_enabled_world_info(index, files), index, files, context, draw)

(***************************************************************************)
(* Persisted files: JSON values and the loaders                            *)
(***************************************************************************)

\* what json.loads returns: t is the Python type; num, str, items and pairs
\* hold the value of a number, a string, a list and a dict (its key-value
\* pairs, in order)
JNull == [t |-> "null", num |-> 0, str |-> "", items |-> <<>>, pairs |-> <<>>]
JNum(n) == [JNull EXCEPT !.t = "num", !.num = n]
JStr(str) == [JNull EXCEPT !.t = "str", !.str = str]
JList(items) == [JNull EXCEPT !.t = "list", !.items = items]
JDict(pairs) == [JNull EXCEPT !.t = "dict", !.pairs = pairs]

\* the keys of a dict
dict_keys(d) == {d.pairs[i][1] : i \in DOMAIN d.pairs}

\* a file: not there, there with text json.loads rejects, or there with a value
Missing == [kind |-> "missing", value |-> JNull]
Unparseable == [kind |-> "text", value |-> JNull]
Json(value) == [kind |-> "json", value |-> value]

\* bool(x)
truthy(x) ==
    CASE x.t = "null" -> FALSE
      [] x.t = "num" -> x.num # 0
      [] x.t = "str" -> x.str # ""
      [] x.t = "list" -> x.items # <<>>
      [] x.t = "dict" -> x.pairs # <<>>

\* isinstance(x, dict); x.get and x.items exist exactly then
is_dict(x) == x.t = "dict"

\* d.get(key, default) on a dict
dict_get(d, key, default) ==
    IF key \in dict_keys(d)
    THEN d.pairs[CHOOSE i \in DOMAIN d.pairs : d.pairs[i][1] = key][2]
    ELSE default

\* `for e in x` does not raise TypeError
can_iterate(x) == x.t \in {"list", "dict", "str"}

\* the number of items of the iteration that are dicts (a dict iterates its
\* keys and a str its characters, none of them a dict)
dict_items(x) == IF x.t = "list" THEN Len(SelectSeq(x.items, is_dict)) ELSE 0

\* how a call ends: it raises, or returns None or a value
Raises(error) == [raises |-> TRUE, error |-> error, value |-> None]
Returns(value) == [raises |-> FALSE, error |-> "", value |-> value]
Loaded(kind, entries, default) ==
    Returns(Some([kind |-> kind, entries |-> entries, default |-> default]))

\* _dict_to_memory_book: d.get raises AttributeError off a dict, the loop
\* over d.get("entries", []) raises TypeError off an iterable; entries that
\* are not dicts are skipped, unknown fields dropped, settings of another
\* type replaced by the defaults
dict_to_memory_book(d) ==
    IF ~is_dict(d) THEN Raises("AttributeError")
    ELSE LET entries_raw == dict_get(d, "entries", JList(<<>>))
         IN  IF ~can_iterate(entries_raw) THEN Raises("TypeError")
             ELSE Loaded("memory book", dict_items(entries_raw), FALSE)

\* STMemoryStore.load_book: only json.JSONDecodeError and KeyError are caught
load_book(file) ==
    IF file.kind = "missing" THEN Returns(None)
    ELSE IF file.kind = "text" THEN Returns(None)
    ELSE dict_to_memory_book(file.value)

\* _read_json: None for a missing file and for text that does not parse
read_json(file) == IF file.kind = "json" THEN file.value ELSE JNull

\* _dict_to_stored_wi: d.get("entries", {}).items()
dict_to_stored_wi(d) ==
    IF ~is_dict(d) THEN Raises("AttributeError")
    ELSE LET entries_raw == dict_get(d, "entries", JDict(<<>>))
         IN  IF ~is_dict(entries_raw) THEN Raises("AttributeError")
             ELSE Loaded("world info book",
                         Cardinality({i \in DOMAIN entries_raw.pairs :
                                         is_dict(entries_raw.pairs[i][2])}),
                         FALSE)

\* CharacterBookEntry.__dataclass_fields__
CharacterBookEntryFields == {"keys", "content", "enabled", "insertion_order", "name"}

\* _dict_to_stored_character: `"character_book" in data_dict` raises
\* TypeError on a number or None, data_dict.get raises AttributeError off a
\* dict, CharacterBookEntry(**e) raises TypeError unless e is a dict of known fields
dict_to_stored_character(d) ==
    IF ~is_dict(d) THEN Raises("AttributeError")
    ELSE LET data_dict == dict_get(d, "data", JDict(<<>>))
         IN  IF data_dict.t \in {"num", "null"} THEN Raises("TypeError")
             ELSE IF ~is_dict(data_dict) THEN Raises("AttributeError")
             ELSE LET book == dict_get(data_dict, "character_book", JNull)
                  IN  IF /\ book.t = "list"
                         /\ \E i \in DOMAIN book.items :
                               \/ ~is_dict(book.items[i])
                               \/ ~(dict_keys(book.items[i]) \subseteq CharacterBookEntryFields)
                      THEN Raises("TypeError")
                      ELSE Loaded("character", 0, FALSE)

\* _dict_to_stored_preset: data_dict.get raises AttributeError off a dict, the
\* loop over data_dict.get("prompts", []) raises TypeError off an iterable
dict_to_stored_preset(d) ==
    IF ~is_dict(d) THEN Raises("AttributeError")
    ELSE LET data_dict == dict_get(d, "data", JDict(<<>>))
         IN  IF ~is_dict(data_dict) THEN Raises("AttributeError")
             ELSE LET prompts == dict_get(data_dict, "prompts", JList(<<>>))
                  IN  IF ~can_iterate(prompts) THEN Raises("TypeError")
                      ELSE Loaded("preset", dict_items(prompts), FALSE)

\* get_world_info, get_character, get_preset: None for a falsy value
get_stored(store, file) ==
    LET raw == read_json(file)
    IN  IF ~truthy(raw) THEN Returns(None)
        ELSE IF store = "worldinfo" THEN dict_to_stored_wi(raw)
        ELSE IF store = "characters" THEN dict_to_stored_character(raw)
        ELSE dict_to_stored_preset(raw)

\* _load_char_index, _load_wi_index, _load_preset_index: the default index
\* unless the value is a non-empty dict; entries is taken as it is
load_index(file) ==
    LET raw == read_json(file)
    IN  IF truthy(raw) /\ is_dict(raw)
        THEN Loaded("index", dict_items(dict_get(raw, "entries", JList(<<>>))), FALSE)
        ELSE Loaded("index", 0, TRUE)

\* the loader of each store
load(store, file) ==
    IF store = "memories" THEN load_book(file)
    ELSE IF store = "index" THEN load_index(file)
    ELSE get_stored(store, file)

(***************************************************************************)
(* Stored characters, presets and world-info books: index and files        *)
(***************************************************************************)

\* what an operation returns with the index and the files it leaves
Done(ok, index, files) == [ok |-> ok, index |-> index, files |-> files]

HasId(entries, id) == \E i \in DOMAIN entries : entries[i].id = id

\* import_character, import_preset: the card file is written, the index
\* entries of the card's name are dropped and the card's entry is appended
import_stored(index, files, card) ==
    Done(TRUE,
         [index EXCEPT !.entries =
             Append(SelectSeq(index.entries, LAMBDA e : e.name # card.name),
                    [id |-> card.id, name |-> card.name])],
         files \cup {card.id})

\* mutant: the active id is set without looking the id up
activate_unchecked(index, files, id) ==
    Done(TRUE, [index EXCEPT !.active = id], files)

\* activate_character, activate_preset
activate(index, files, id) ==
    IF ~HasId(index.entries, id) THEN Done(FALSE, index, files)
    ELSE Done(TRUE, [index EXCEPT !.active = id], files)

\* deactivate_character, deactivate_preset
deactivate(index, files) == Done(TRUE, [index EXCEPT !.active = ""], files)

\* delete_character, delete_preset
delete_stored(index, files, id) ==
    IF id \notin files THEN Done(FALSE, index, files)
    ELSE Done(TRUE,
              [entries |-> SelectSeq(index.entries, LAMBDA e : e.id # id),
               active |-> IF index.active = id THEN "" ELSE index.active],
              files \ {id})

\* import_world_info
import_world_info(index, files, book) ==
    Done(TRUE,
         Append(SelectSeq(index, LAMBDA e : e.name # book.name),
                [id |-> book.id, name |-> book.name, enabled |-> book.enabled]),
         [k \in DOMAIN files \cup {book.id} |->
             IF k = book.id THEN book.entries ELSE files[k]])

\* set_world_info_enabled: the first index entry of that id
set_world_info_enabled(index, files, id, enabled) ==
    IF ~HasId(index, id) THEN Done(FALSE, index, files)
    ELSE LET first == CHOOSE i \in DOMAIN index :
                          index[i].id = id /\ \A j \in 1..(i - 1) : index[j].id # id
         IN  Done(TRUE, [index EXCEPT ![first].enabled = enabled], files)

\* delete_world_info
delete_world_info(index, files, id) ==
    IF id \notin DOMAIN files THEN Done(FALSE, index, files)
    ELSE Done(TRUE,
              SelectSeq(index, LAMBDA e : e.id # id),
              [k \in DOMAIN files \ {id} |-> files[k]])

(***************************************************************************)
(* Memory books: the directory of book files                               *)
(***************************************************************************)

\* the characters re.sub keeps in _generate_id: [a-z0-9] (no CJK here)
IsIdChar(c) == c \in Range(LowerChars) \cup DigitChars

\* re.sub(r"[^a-z0-9...]+", "-", s): each maximal run of other characters
\* becomes one "-"
RECURSIVE squeeze(_)
squeeze(str) ==
    IF str = <<>> THEN <<>>
    ELSE IF IsIdChar(str[1]) THEN <<str[1]>> \o squeeze(Tail(str))
    ELSE LET kept == {i \in 1..Len(str) : IsIdChar(str[i])}
             n == IF kept = {} THEN Len(str) + 1
                  ELSE CHOOSE i \in kept : \A j \in kept : i <= j
         IN  <<"-">> \o squeeze(SubSeq(str, n, Len(str)))

\* str.strip("-")
strip_dash(str) ==
    LET keep == {i \in 1..Len(str) : str[i] # "-"}
    IN  IF keep = {} THEN <<>>
        ELSE SubSeq(str, CHOOSE i \in keep : \A j \in keep : i <= j,
                         CHOOSE i \in keep : \A j \in keep : j <= i)

\* the length _generate_id cuts the sanitized name to
IdNameLen == 20

\* _generate_id(name) at the millisecond ts: "mb-<sanitized>-<hex(ts)>"
generate_id(name, ts) ==
    LET clean == strip_dash(squeeze(Lower(name)))
    IN  [name |-> SubSeq(clean, 1, IF Len(clean) < IdNameLen THEN Len(clean) ELSE IdNameLen),
         ts |-> ts]

\* a or b, on strings
str_or(a, b) == IF a # <<>> THEN a ELSE b

\* the books whose file get_or_create_book returns for character_id
books_of_character(dir, character_id) ==
    IF character_id = "" THEN {} ELSE {b \in dir : b.character_id = character_id}

\* save_book: <id>.json is written, replacing a file of that id
save_book(dir, book) == {b \in dir : b.id # book.id} \cup {book}

\* the creating branch of get_or_create_book at the millisecond ts
created_book(character_id, character_name, session_key, ts) ==
    [id |-> generate_id(str_or(character_name, str_or(session_key,
                            <<"d", "e", "f", "a", "u", "l", "t">>)), ts),
     name |-> str_or(character_name, str_or(session_key, <<"D", "e", "f", "a", "u", "l", "t">>)),
     character_id |-> character_id, session_key |-> session_key, entries |-> <<>>]

\* delete_book
delete_book(dir, book_id) ==
    IF \E b \in dir : b.id = book_id
    THEN [ok |-> TRUE, dir |-> {b \in dir : b.id # book_id}]
    ELSE [ok |-> FALSE, dir |-> dir]

\* delete_memory
delete_memory(dir, book_id, memory_id) ==
    IF ~\E b \in dir : b.id = book_id THEN [ok |-> FALSE, dir |-> dir]
    ELSE LET book == CHOOSE b \in dir : b.id = book_id
             entries == SelectSeq(book.entries, LAMBDA e : e # memory_id)
         IN  IF Len(entries) = Len(book.entries) THEN [ok |-> FALSE, dir |-> dir]
             ELSE [ok |-> TRUE, dir |-> save_book(dir, [book EXCEPT !.entries = entries])]

\* bounds of random.randint(0, 0xFFFFFF) in _generate_mem_id
MemIdLo == 0
MemIdHi == 16777215

\* add_memory in the directory: the entry "mem-<hex(ts)>-<hex(r)>" is appended
add_memory(dir, book_id, ts, r) ==
    IF ~\E b \in dir : b.id = book_id THEN [ok |-> FALSE, dir |-> dir]
    ELSE LET book == CHOOSE b \in dir : b.id = book_id
         IN  [ok |-> TRUE,
              dir |-> save_book(dir, [book EXCEPT !.entries = Append(book.entries, <<ts, r>>)])]

(***************************************************************************)
(* Memory: keyword extraction and scoring                                  *)
(***************************************************************************)

\* _STOP_WORDS
STOP_WORDS ==
    { <<"t", "h", "e">>,
      <<"a">>,
      <<"a", "n">>,
      <<"i", "s">>,
      <<"a", "r", "e">>,
      <<"w", "a", "s">>,
      <<"w", "e", "r", "e">>,
      <<"b", "e">>,
      <<"b", "e", "e", "n">>,
      <<"b", "e", "i", "n", "g">>,
      <<"h", "a", "v", "e">>,
      <<"h", "a", "s">>,
      <<"h", "a", "d">>,
      <<"d", "o">>,
      <<"d", "o", "e", "s">>,
      <<"d", "i", "d">>,
      <<"w", "i", "l", "l">>,
      <<"w", "o", "u", "l", "d">>,
      <<"c", "o", "u", "l", "d">>,
      <<"s", "h", "o", "u", "l", "d">>,
      <<"m", "a", "y">>,
      <<"m", "i", "g", "h", "t">>,
      <<"m", "u", "s", "t">>,
      <<"c", "a", "n">>,
      <<"a", "n", "d">>,
      <<"o", "r">>,
      <<"b", "u", "t">>,
      <<"i", "f">>,
      <<"t", "h", "e", "n">>,
      <<"e", "l", "s", "e">>,
      <<"w", "h", "e", "n">>,
      <<"w", "h", "e", "r", "e">>,
      <<"w", "h", "y">>,
      <<"h", "o", "w">>,
      <<"w", "h", "a", "t">>,
      <<"w", "h", "i", "c", "h">>,
      <<"w", "h", "o">>,
      <<"w", "h", "o", "m">>,
      <<"t", "h", "i", "s">>,
      <<"t", "h", "a", "t">>,
      <<"t", "h", "e", "s", "e">>,
      <<"t", "h", "o", "s", "e">>,
      <<"f", "o", "r">>,
      <<"w", "i", "t", "h">>,
      <<"a", "b", "o", "u", "t">>,
      <<"i", "n", "t", "o">>,
      <<"t", "h", "r", "o", "u", "g", "h">>,
      <<"d", "u", "r", "i", "n", "g">>,
      <<"b", "e", "f", "o", "r", "e">>,
      <<"a", "f", "t", "e", "r">>,
      <<"a", "b", "o", "v", "e">>,
      <<"b", "e", "l", "o", "w">>,
      <<"f", "r", "o", "m">>,
      <<"u", "p">>,
      <<"d", "o", "w", "n">>,
      <<"i", "n">>,
      <<"o", "u", "t">>,
      <<"o", "n">>,
      <<"o", "f", "f">>,
      <<"o", "v", "e", "r">>,
      <<"u", "n", "d", "e", "r">>,
      <<"n", "o", "t">>,
      <<"o", "n", "l", "y">>,
      <<"o", "w", "n">>,
      <<"s", "a", "m", "e">>,
      <<"s", "o">>,
      <<"t", "h", "a", "n">>,
      <<"t", "o", "o">>,
      <<"v", "e", "r", "y">>,
      <<"j", "u", "s", "t">> }

\* str.split(): the maximal runs of non-space characters
RECURSIVE split(_)
split(s) ==
    IF s = <<>> THEN <<>>
    ELSE IF IsSpace(s[1]) THEN split(Tail(s))
    ELSE LET stops == {i \in 1..Len(s) : IsSpace(s[i])}
             n == IF stops = {} THEN Len(s)
                  ELSE (CHOOSE i \in stops : \A j \in stops : i <= j) - 1
         IN  <<SubSeq(s, 1, n)>> \o split(SubSeq(s, n + 1, Len(s)))

\* list(dict.fromkeys(seq)): the first occurrence of each element, in order
dedupe(seq) ==
    SelectSeq([i \in 1..Len(seq) |-> i],
              LAMBDA i : \A j \in 1..(i - 1) : seq[j] # seq[i])

\* _extract_keywords
extract_keywords(text) ==
    IF Strip(text) = <<>> THEN <<>>
    ELSE LET lowered == Lower(text)
             cleaned == [i \in 1..Len(lowered) |->
                            IF IsWordChar(lowered[i]) \/ IsSpace(lowered[i])
                            THEN lowered[i] ELSE " "]
             words == SelectSeq(split(cleaned),
                                LAMBDA w : Len(w) > 2 /\ w \notin STOP_WORDS)
             first == dedupe(words)
         IN  [i \in 1..Len(first) |-> words[first[i]]]

\* mutant: a keyword in the content counts 2.0 as well
keyword_score_content_double(entry, keywords) ==
    2 * Cardinality({p \in (DOMAIN entry.keywords) \X (DOMAIN keywords) :
                        Contains(Lower(entry.keywords[p[1]]), Lower(keywords[p[2]]))})
    + 2 * Cardinality({j \in DOMAIN keywords : Contains(Lower(entry.content), keywords[j])})

\* _keyword_score: 2.0 per (tag, keyword) with the keyword in the tag, 1.0 per
\* keyword in the lower-cased content
keyword_score(entry, keywords) ==
    2 * Cardinality({p \in (DOMAIN entry.keywords) \X (DOMAIN keywords) :
                        Contains(Lower(entry.keywords[p[1]]), Lower(keywords[p[2]]))})
    + Cardinality({j \in DOMAIN keywords : Contains(Lower(entry.content), keywords[j])})

(***************************************************************************)
(* Memory: retrieve_memories                                               *)
(***************************************************************************)

\* list.sort(key=..., reverse=True) on pairs <<key, item>>: insertion after
\* the last element whose key is not smaller (stable)
RECURSIVE sort_desc(_)
sort_desc(pairs) ==
    IF pairs = <<>> THEN <<>>
    ELSE LET n == Len(pairs)
             x == pairs[n]
             rest == sort_desc(SubSeq(pairs, 1, n - 1))
             p == Cardinality({j \in DOMAIN rest : rest[j][1] >= x[1]})
         IN  SubSeq(rest, 1, p) \o <<x>> \o SubSeq(rest, p + 1, Len(rest))

Items(pairs) == [i \in 1..Len(pairs) |-> pairs[i][2]]

\* seq[:n] of Python, for every integer n
slice_to(seq, n) ==
    IF n >= 0 THEN SubSeq(seq, 1, IF n < Len(seq) THEN n ELSE Len(seq))
    ELSE SubSeq(seq, 1, IF Len(seq) + n > 0 THEN Len(seq) + n ELSE 0)

\* limit = max_memories or settings.max_memories_per_request
effective_limit(settings, max_memories) ==
    IF max_memories # None /\ max_memories[1] # 0 THEN max_memories[1]
    ELSE settings.max_memories_per_request

\* min_imp = min_importance if min_importance is not None else settings.min_importance
effective_min_importance(settings, min_importance) ==
    IF min_importance # None THEN min_importance[1] ELSE settings.min_importance

\* order = sort_by or settings.sort_by
effective_order(settings, sort_by) ==
    IF sort_by # None /\ sort_by[1] # "" THEN sort_by[1] ELSE settings.sort_by

\* mutant: the importance threshold is left out of the filter
importance_filtered_no_threshold(entries, min_imp) ==
    SelectSeq([i \in 1..Len(entries) |-> i], LAMBDA i : entries[i].enabled)

\* the positions of book.entries kept by the enabled/importance filter
importance_filtered(entries, min_imp) ==
    SelectSeq([i \in 1..Len(entries) |-> i],
              LAMBDA i : entries[i].enabled /\ entries[i].importance >= min_imp)

\* mutant: the scored entries are put first and the others kept behind them
keyword_filtered_ranking(entries, filtered, settings, context) ==
    IF Strip(context) # <<>> /\ settings.use_keyword_retrieval
    THEN LET keywords == extract_keywords(context)
             score == [i \in Range(filtered) |-> keyword_score(entries[i], keywords)]
             scored == SelectSeq(filtered, LAMBDA i : score[i] > 0)
             others == SelectSeq(filtered, LAMBDA i : score[i] = 0)
         IN  IF keywords = <<>> THEN filtered
             ELSE IF scored = <<>> THEN filtered
             ELSE Items(sort_desc([k \in 1..Len(scored) |-> <<score[scored[k]], scored[k]>>]))
                  \o others
    ELSE filtered

\* mutant: when no entry scores, nothing is kept
keyword_filtered_strict(entries, filtered, settings, context) ==
    IF Strip(context) # <<>> /\ settings.use_keyword_retrieval
    THEN LET keywords == extract_keywords(context)
             score == [i \in Range(filtered) |-> keyword_score(entries[i], keywords)]
             scored == SelectSeq(filtered, LAMBDA i : score[i] > 0)
         IN  IF keywords = <<>> THEN filtered
             ELSE Items(sort_desc([k \in 1..Len(scored) |-> <<score[scored[k]], scored[k]>>]))
    ELSE filtered

\* the keyword block: `filtered` after it
keyword_filtered(entries, filtered, settings, context) ==
    IF Strip(context) # <<>> /\ settings.use_keyword_retrieval
    THEN LET keywords == extract_keywords(context)
             score == [i \in Range(filtered) |-> keyword_score(entries[i], keywords)]
             scored == SelectSeq(filtered, LAMBDA i : score[i] > 0)
         IN  IF keywords = <<>> THEN filtered
             ELSE IF scored = <<>> THEN filtered
             ELSE Items(sort_desc([k \in 1..Len(scored) |-> <<score[scored[k]], scored[k]>>]))
    ELSE filtered

\* mutant: access_count sorts without reverse=True
strategy_sorted_access_ascending(entries, filtered, order) ==
    IF order = "importance"
    THEN Items(sort_desc([k \in 1..Len(filtered) |->
                  <<entries[filtered[k]].importance, filtered[k]>>]))
    ELSE IF order = "recency"
    THEN Items(sort_desc([k \in 1..Len(filtered) |->
                  <<entries[filtered[k]].last_accessed_at, filtered[k]>>]))
    ELSE IF order = "access_count"
    THEN Items(sort_desc([k \in 1..Len(filtered) |->
                  <<0 - entries[filtered[k]].access_count, filtered[k]>>]))
    ELSE filtered

\* mutant: an unknown strategy sorts by importance
strategy_sorted_unknown_is_importance(entries, filtered, order) ==
    IF order = "recency"
    THEN Items(sort_desc([k \in 1..Len(filtered) |->
                  <<entries[filtered[k]].last_accessed_at, filtered[k]>>]))
    ELSE IF order = "access_count"
    THEN Items(sort_desc([k \in 1..Len(filtered) |->
                  <<entries[filtered[k]].access_count, filtered[k]>>]))
    ELSE Items(sort_desc([k \in 1..Len(filtered) |->
                  <<entries[filtered[k]].importance, filtered[k]>>]))

\* the sort block: `filtered` after it
strategy_sorted(entries, filtered, order) ==
    IF order = "importance"
    THEN Items(sort_desc([k \in 1..Len(filtered) |->
                  <<entries[filtered[k]].importance, filtered[k]>>]))
    ELSE IF order = "recency"
    THEN Items(sort_desc([k \in 1..Len(filtered) |->
                  <<entries[filtered[k]].last_accessed_at, filtered[k]>>]))
    ELSE IF order = "access_count"
    THEN Items(sort_desc([k \in 1..Len(filtered) |->
                  <<entries[filtered[k]].access_count, filtered[k]>>]))
    ELSE filtered

\* mutant: the sort block runs before the keyword block
retrieved_sort_first(book, context, max_memories, min_importance, sort_by) ==
    LET limit == effective_limit(book.settings, max_memories)
        min_imp == effective_min_importance(book.settings, min_importance)
        order == effective_order(book.settings, sort_by)
        filtered == importance_filtered(book.entries, min_imp)
        sorted == strategy_sorted(book.entries, filtered, order)
    IN  slice_to(keyword_filtered(book.entries, sorted, book.settings, context), limit)

\* the list retrieve_memories returns, as positions of book.entries
retrieved(book, context, max_memories, min_importance, sort_by) ==
    LET limit == effective_limit(book.settings, max_memories)
        min_imp == effective_min_importance(book.settings, min_importance)
        order == effective_order(book.settings, sort_by)
        filtered == importance_filtered(book.entries, min_imp)
        candidates == keyword_filtered(book.entries, filtered, book.settings, context)
    IN  slice_to(strategy_sorted(book.entries, candidates, order), limit)

\* mutant: the counter is incremented and the access time is left alone
touched_count_only(entries, result, now) ==
    [i \in 1..Len(entries) |->
        IF \E p \in DOMAIN result : result[p] = i
        THEN [entries[i] EXCEPT !.access_count = entries[i].access_count + 1]
        ELSE entries[i]]

\* mutant: the counter is set to 1, not incremented
touched_set_to_one(entries, result, now) ==
    [i \in 1..Len(entries) |->
        IF \E p \in DOMAIN result : result[p] = i
        THEN [entries[i] EXCEPT !.last_accessed_at = now, !.access_count = 1]
        ELSE entries[i]]

\* mutant: every entry of the book is stamped, returned or not
touched_every_entry(entries, result, now) ==
    [i \in 1..Len(entries) |->
        IF \E p \in DOMAIN result : result[p] = i
        THEN [entries[i] EXCEPT !.last_accessed_at = now,
                                !.access_count = entries[i].access_count + 1]
        ELSE [entries[i] EXCEPT !.last_accessed_at = now]]

\* the access bookkeeping of the returned entries
touched(entries, result, now) ==
    [i \in 1..Len(entries) |->
        IF \E p \in DOMAIN result : result[p] = i
        THEN [entries[i] EXCEPT !.last_accessed_at = now,
                                !.access_count = entries[i].access_count + 1]
        ELSE entries[i]]

(***************************************************************************)
(* State                                                                   *)
(***************************************************************************)

VARIABLES
    wiBook,      \* book.entries.values(): the entries of a WorldInfoBook, in iteration order
    wiCall,      \* the last get_activated_entries call: its arguments, draws and result
    memFile,     \* the memory book file: entries, settings, updated_at
    memNow,      \* the last instant datetime.now() returned
    memCall,     \* the last retrieve_memories call: its arguments, the book it loaded, its result
    memCalls,    \* the number of retrieve_memories calls made
    memReturned, \* history: per entry, the number of retrievals that returned it
    keyCall,     \* one _key_matches call: its arguments and what it returned
    wiIndex,     \* worldinfo/worldinfo.json: the index entries, in file order
    wiFiles,     \* worldinfo/<id>.json: the stored books, by id
    ctxCall,     \* the world-info step of one _build_sillytavern_context call
    loadCall,    \* one load of a persisted file: the store, the file's content, the outcome
    stFocus,     \* the store the operations of one behaviour work on
    stOps,       \* the number of store operations made
    stClock,     \* time.time() in milliseconds, as last read
    memDir,      \* memories/<id>.json: the stored memory books
    charIndex,   \* characters/_index.json: entries and the active id
    charFiles,   \* characters/<id>.json: the ids of the stored cards
    presetIndex, \* presets/_index.json: entries and the active id
    presetFiles, \* presets/<id>.json: the ids of the stored presets
    stCall,      \* the last store operation: its name, arguments and result
    scoreCall,   \* one _keyword_score call: the entry, the text the keywords come from, the score
    raceStart,   \* the book file before either caller ran
    raceFile,    \* the book file two callers share
    raceNow,     \* the last instant datetime.now() returned to either caller
    raceProc,    \* per caller: its operation, its position, the book it loaded, the book it holds
    raceSaves    \* history: the callers that saved, in the order of their saves

wiVars == <<wiBook, wiCall>>
memVars == <<memFile, memNow, memCall, memCalls, memReturned>>
keyVars == <<keyCall>>
ctxVars == <<wiIndex, wiFiles, ctxCall>>
loadVars == <<loadCall>>
storeVars == <<stFocus, stOps, stClock, memDir, charIndex, charFiles, presetIndex, presetFiles, stCall>>
scoreVars == <<scoreCall>>
raceVars == <<raceStart, raceFile, raceNow, raceProc, raceSaves>>
vars == <<wiBook, wiCall, memFile, memNow, memCall, memCalls, memReturned, keyCall, wiIndex, wiFiles, ctxCall, loadCall, stFocus, stOps, stClock, memDir, charIndex, charFiles, presetIndex, presetFiles, stCall, scoreCall, raceStart, raceFile, raceNow, raceProc, raceSaves>>

\* what the steps of one part leave alone
exceptWI == <<memVars, keyVars, ctxVars, loadVars, storeVars, scoreVars, raceVars>>
exceptMem == <<wiVars, keyVars, ctxVars, loadVars, storeVars, scoreVars, raceVars>>
exceptKey == <<wiVars, memVars, ctxVars, loadVars, storeVars, scoreVars, raceVars>>
exceptCtx == <<wiVars, memVars, keyVars, loadVars, storeVars, scoreVars, raceVars>>
exceptLoad == <<wiVars, memVars, keyVars, ctxVars, storeVars, scoreVars, raceVars>>
exceptStore == <<wiVars, memVars, keyVars, loadVars, ctxCall, scoreVars, raceVars>>
exceptScore == <<wiVars, memVars, keyVars, ctxVars, loadVars, storeVars, raceVars>>
exceptRace == <<wiVars, memVars, keyVars, ctxVars, loadVars, storeVars, scoreVars>>

(***************************************************************************)
(* Memory: inputs                                                          *)
(***************************************************************************)

\* the most entries a book holds
MaxMem == 3

\* the most retrieve_memories calls of one behaviour
MaxCalls == 2

\* MemoryBookSettings()
DefaultMaxMemories == 10
DefaultMinImportance == 50

DefaultSettings ==
    [max_memories_per_request |-> DefaultMaxMemories, use_keyword_retrieval |-> TRUE,
     min_importance |-> DefaultMinImportance, sort_by |-> "importance"]

MemSettingsInputs ==
    {DefaultSettings, [DefaultSettings EXCEPT !.use_keyword_retrieval = FALSE]}

MemEntry(content, keywords, importance, enabled, access_count, last_accessed_at) ==
    [content |-> content, keywords |-> keywords, importance |-> importance,
     enabled |-> enabled, access_count |-> access_count,
     last_accessed_at |-> last_accessed_at]

\* an entry found in the file with enabled = false; its content and its tag
\* hold the keyword of MemContexts
DisabledSeed == MemEntry(<<"c", "a", "t">>, <<<<"C", "a", "t", "s">>>>, 60, FALSE, 0, 0)

\* add_memory arguments (content, keywords, importance): keyword scores 1, 2,
\* 0 and 3 against the keyword "cat", the last below the default threshold
AddInputs ==
    { <<<<"c", "a", "t">>, <<>>, 60>>,
      <<<<"d", "o", "g">>, <<<<"C", "a", "t", "s">>>>, 50>>,
      <<<<"d", "o", "g">>, <<>>, 60>>,
      <<<<"c", "a", "t">>, <<<<"C", "a", "t", "s">>>>, 40>> }

\* blank, one keyword ("cat"), one keyword no entry holds, stop word only
MemContexts ==
    { <<>>,
      <<"C", "a", "t", "!">>,
      <<"o", "w", "l">>,
      <<"t", "h", "e">> }

MemMaxMemories == {None, Some(1)}
MemMinImportance == {None, Some(0)}
MemSortBy == {None, Some("recency"), Some("access_count"), Some("keyword")}

\* arguments that are falsy or negative: a limit of 0 and of -1, a threshold
\* of 0, an empty strategy, beside an ordinary limit and strategy
ArgMaxMemories == {None, Some(0), Some(-1), Some(2)}
ArgMinImportance == {None, Some(0)}
ArgSortBy == {None, Some(""), Some("recency")}

\* limit, min_imp and order are the locals of that name
NoMemCall == [called |-> FALSE, context |-> <<>>, max_memories |-> None,
              min_importance |-> None, sort_by |-> None,
              limit |-> 0, min_imp |-> 0, order |-> "",
              loaded |-> <<>>, now |-> 0, result |-> <<>>, previous |-> None]

(***************************************************************************)
(* World info: inputs                                                      *)
(***************************************************************************)

\* the longest book built from WIPool
MaxBook == 3

WIEntry(key, keysecondary, content, constant, selective, selective_logic, disable, probability, use_probability, order, case_sensitive, match_whole_words) ==
    [key |-> key, keysecondary |-> keysecondary, content |-> content,
     constant |-> constant, selective |-> selective, selective_logic |-> selective_logic,
     disable |-> disable, probability |-> probability, use_probability |-> use_probability,
     order |-> order, case_sensitive |-> case_sensitive,
     match_whole_words |-> match_whole_words]

\* WorldInfoEntry().order
DefaultOrder == 100

\* every combination of the fields activation reads, for books of one entry
WIEntries ==
    {WIEntry(k, ks, c, const, sel, logic, dis, p, up, DefaultOrder, cs, ww) :
        k \in {<<>>, <<<<"j">>, <<"k">>>>},
        ks \in {<<>>, <<<<"a">>, <<"b">>>>},
        c \in {<<>>, <<" ">>, <<"x">>},
        const \in BOOLEAN, sel \in BOOLEAN, logic \in {0, 1, 2, 3, 4},
        dis \in BOOLEAN, p \in {0, 50, 100}, up \in BOOLEAN,
        cs \in BOOLEAN, ww \in BOOLEAN}

\* the entries of the longer books: constant and keyed at three orders,
\* keyed behind a probability gate and disabled at one
WIPool ==
    {WIEntry(IF ko[1] = "constant" THEN <<>> ELSE <<<<"k">>>>, <<>>, <<"x">>,
             ko[1] \in {"constant", "disabled"}, FALSE, 0, ko[1] = "disabled",
             IF ko[1] = "gated" THEN 50 ELSE 100, ko[1] = "gated", ko[2], FALSE, FALSE) :
        ko \in ({"constant", "keyed"} \X {10, 20, 30}) \cup ({"gated", "disabled"} \X {20})}

SeqsOf(S, n) == UNION {[1..m -> S] : m \in 2..n}

WIBooks == {<<e>> : e \in WIEntries} \cup SeqsOf(WIPool, MaxBook)

WIContexts ==
    { <<>>,
      <<"k">>,
      <<"k", " ", "a">>,
      <<"k", " ", "a", " ", "b">>,
      <<"a", " ", "b">>,
      <<"K", "a", "b">> }

WIConfigs == {None} \cup {Some([max_entries |-> m]) : m \in {-1, 0, 2}}

\* _key_matches arguments: blank keys, a word in three spellings, a key
\* with a space inside and one that ends in a non-word character
KeyInputs ==
    { <<>>,
      <<" ">>,
      <<" ", "\t">>,
      <<"c", "a", "t">>,
      <<"C", "a", "t">>,
      <<"a", "t">>,
      <<"c", "a", "t", " ", "s">>,
      <<"c", "a", "t", "!">> }

KeyContexts ==
    { <<>>,
      <<" ">>,
      <<"c", "a", "t">>,
      <<"c", "a", "t", "e", "g", "o", "r", "y">>,
      <<"t", "h", "e", " ", "c", "a", "t", " ", "s", "a", "t">>,
      <<"T", "h", "e", " ", "C", "A", "T", "!">>,
      <<"c", "a", "t", "!", "s">>,
      <<"c", "a", "t", "_", "1">>,
      <<"C", "a", "t", "-", "1">> }

NoKeyCall == [called |-> FALSE, key |-> <<>>, context |-> <<>>, case_sensitive |-> FALSE,
              match_whole_words |-> FALSE, result |-> FALSE]

\* the most entries of the world-info index
MaxIndex == 3

\* the ids of the index entries, in index order
CtxIds == <<"b1", "b2", "b3", "b4">>

\* a book of DefaultMaxEntries + 1 constant entries, stored from the highest
\* order down
CtxBigBook ==
    [i \in 1..(DefaultMaxEntries + 1) |->
        WIEntry(<<>>, <<>>, <<"x">>, TRUE, FALSE, 0, FALSE, 100, FALSE,
                DefaultMaxEntries + 2 - i, FALSE, FALSE)]

\* the stored books: a keyed entry behind a constant one of lower order, one
\* constant entry, a gated entry with a disabled one, and the big book
CtxBooks ==
    { <<WIEntry(<<<<"k">>>>, <<>>, <<"x">>, FALSE, FALSE, 0, FALSE, 100, FALSE, 30, FALSE, FALSE),
        WIEntry(<<>>, <<>>, <<"x">>, TRUE, FALSE, 0, FALSE, 100, FALSE, 20, FALSE, FALSE)>>,
      <<WIEntry(<<>>, <<>>, <<"x">>, TRUE, FALSE, 0, FALSE, 100, FALSE, 10, FALSE, FALSE)>>,
      <<WIEntry(<<<<"k">>>>, <<>>, <<"x">>, FALSE, FALSE, 0, FALSE, 50, TRUE, 10, FALSE, FALSE),
        WIEntry(<<>>, <<>>, <<"x">>, TRUE, FALSE, 0, TRUE, 100, FALSE, 5, FALSE, FALSE)>>,
      CtxBigBook }

CtxContexts == {<<>>, <<"k">>}

\* the most store operations of one behaviour
MaxOps == 3

\* the stores of the data directory
StStores == {"memories", "worldinfo", "characters", "presets"}

\* CharacterIndex(), PresetIndex()
EmptyIndex == [entries |-> <<>>, active |-> ""]

\* the cards imported: two of one name made at different instants, one of
\* another name
StCards == {[id |-> "c1", name |-> "n1"], [id |-> "c2", name |-> "n1"],
            [id |-> "c3", name |-> "n2"]}

\* the world-info books imported, likewise
StBooks ==
    {[id |-> "b1", name |-> "n1", enabled |-> TRUE, entries |-> CtxBigBook],
     [id |-> "b2", name |-> "n1", enabled |-> FALSE, entries |-> CtxBigBook],
     [id |-> "b3", name |-> "n2", enabled |-> TRUE, entries |-> CtxBigBook]}

\* the ids operations are called with: the imported ones and one never stored
StIds == {"c1", "c2", "c3", "b1", "b2", "b3", "zz"}

\* the characters get_or_create_book is called for: none, and two whose
\* names sanitize alike
StCharacters ==
    {[character_id |-> "", character_name |-> <<>>],
     [character_id |-> "c1", character_name |-> <<"A", "l">>],
     [character_id |-> "c2", character_name |-> <<"a", "l", "!">>]}

\* the session keys get_or_create_book is called with
StSessions == {<<>>, <<"s", "1">>}

\* a book id and a memory id no operation generates
UnknownBook == generate_id(<<"n", "o">>, 0)
UnknownMemory == <<0, MemIdLo>>

NoStCall == [op |-> "", sid |-> "", bid |-> UnknownBook, mid |-> UnknownMemory,
             character_id |-> "", session_key |-> <<>>, enabled |-> FALSE,
             ok |-> FALSE, ret |-> UnknownBook]

\* the entries _keyword_score is called on: contents and tag lists in mixed
\* case, with a tag repeated and a tag that holds two of the keywords
ScoreEntries ==
    {MemEntry(content, tags, DefaultMinImportance, TRUE, 0, 0) :
        content \in { <<>>, <<"c", "a", "t">>, <<"d", "o", "g">>,
                      <<"T", "h", "e", " ", "C", "a", "t", " ", "s", "a", "t">> },
        tags \in { <<>>,
                   <<<<"c", "a", "t">>>>,
                   <<<<"C", "a", "t", "s">>>>,
                   <<<<"C", "a", "t", "s">>, <<"c", "a", "t", "s">>>>,
                   <<<<"C", "a", "t", "s">>, <<"d", "o", "g">>>>,
                   <<<<"d", "o", "g">>>>,
                   <<<<"h", "o", "t", "d", "o", "g", " ", "C", "A", "T">>>> }}

\* the texts the keywords are extracted from: 0, 1, 2 and 3 keywords
ScoreTexts ==
    { <<"t", "h", "e">>,
      <<"C", "a", "t", "!">>,
      <<"o", "w", "l">>,
      <<"c", "a", "t", " ", "d", "o", "g">>,
      <<"s", "a", "t", " ", "c", "a", "t", " ", "o", "w", "l">> }

NoScoreCall == [called |-> FALSE, entry |-> MemEntry(<<>>, <<>>, 0, FALSE, 0, 0),
                text |-> <<>>, keywords |-> <<>>, score |-> 0]

\* two callers of one STMemoryStore book, nothing serializing them
RaceProcs == {1, 2}

\* a MemoryEntry with its id; the other fields as add_memory sets them
RaceEntry(id, inp, now) ==
    [id |-> id, content |-> inp[1], keywords |-> inp[2], importance |-> inp[3],
     enabled |-> TRUE, access_count |-> 0, last_accessed_at |-> now]

\* the book files the callers start from: one entry, or two
RaceBooks ==
    {[entries |-> es, settings |-> DefaultSettings, updated_at |-> 0] :
        es \in { <<RaceEntry(1, <<<<"c", "a", "t">>, <<>>, 60>>, 0)>>,
                 <<RaceEntry(1, <<<<"c", "a", "t">>, <<>>, 60>>, 0),
                   RaceEntry(2, <<<<"d", "o", "g">>, <<>>, 60>>, 0)>> }}

\* the ids _generate_mem_id may draw
RaceNewIds == {8, 9}

\* delete_memory arguments: two ids of the book and one it does not hold
RaceDeleteIds == {1, 2, 7}

NoRaceBook == [entries |-> <<>>, settings |-> DefaultSettings, updated_at |-> 0]

\* op: the operation; pc: idle, loaded (the book is in memory, modified) or
\* done; loaded: the book load_book returned; book: that book after the
\* operation's changes; saves: whether the operation reaches save_book;
\* result: the positions retrieve_memories returns; id: the id added or
\* deleted; seen: the number of saves made before this caller loaded
NoRaceProc == [op |-> "", pc |-> "idle", loaded |-> NoRaceBook, book |-> NoRaceBook,
               saves |-> FALSE, result |-> <<>>, id |-> 0, seen |-> 0]

\* the stores a file is loaded from
LoadStores == {"memories", "worldinfo", "characters", "presets", "index"}

\* an entry object, and one with a field no dataclass has
JEntry == JDict(<<<<"content", JStr("x")>>>>)
JOddEntry == JDict(<<<<"zz", JNum(3)>>>>)

\* a stored object: its id and the given further fields
JBook(pairs) == JDict(<<<<"id", JStr("x")>>>> \o pairs)

\* the values found in a file: scalars and lists at the top level, the empty
\* dict, dicts with well-shaped fields, and dicts whose entries, settings,
\* data, character_book or prompts have another shape
LoadValues ==
    { JNull, JNum(0), JNum(3), JStr("x"), JList(<<>>), JList(<<JNum(3)>>),
      JDict(<<>>),
      JBook(<<>>),
      JBook(<<<<"entries", JList(<<JEntry>>)>>>>),
      JBook(<<<<"entries", JDict(<<<<"a", JEntry>>>>)>>>>),
      JBook(<<<<"entries", JNum(3)>>>>),
      JBook(<<<<"entries", JList(<<JNum(3)>>)>>>>),
      JBook(<<<<"entries", JDict(<<<<"a", JNum(3)>>>>)>>>>),
      JBook(<<<<"settings", JList(<<JNum(3)>>)>>>>),
      JBook(<<<<"data", JDict(<<>>)>>>>),
      JBook(<<<<"data", JNum(3)>>>>),
      JBook(<<<<"data", JStr("x")>>>>),
      JBook(<<<<"data", JDict(<<<<"character_book", JList(<<JEntry>>)>>>>)>>>>),
      JBook(<<<<"data", JDict(<<<<"character_book", JList(<<JNum(3)>>)>>>>)>>>>),
      JBook(<<<<"data", JDict(<<<<"character_book", JList(<<JOddEntry>>)>>>>)>>>>),
      JBook(<<<<"data", JDict(<<<<"prompts", JList(<<JEntry>>)>>>>)>>>>),
      JBook(<<<<"data", JDict(<<<<"prompts", JNum(3)>>>>)>>>>) }

LoadFiles == {Missing, Unparseable} \cup {Json(value) : value \in LoadValues}

NoLoadCall == [called |-> FALSE, store |-> "", file |-> Missing, outcome |-> Returns(None)]

(***************************************************************************)
(* The parts a specification leaves out: nothing stored, nothing called    *)
(***************************************************************************)

NoWICall == [called |-> FALSE, context |-> <<>>, config |-> None,
             draw |-> <<>>, result |-> <<>>]

NoCtxCall == [called |-> FALSE, context |-> <<>>, draw |-> <<>>, result |-> <<>>]

WIIdle == wiBook = <<>> /\ wiCall = NoWICall

MemIdle ==
    /\ memFile = [entries |-> <<>>, settings |-> DefaultSettings, updated_at |-> 0]
    /\ memNow = 0
    /\ memCall = NoMemCall
    /\ memCalls = 0
    /\ memReturned = <<>>

KeyIdle == keyCall = NoKeyCall

CtxIdle == wiIndex = <<>> /\ wiFiles = <<>> /\ ctxCall = NoCtxCall

LoadIdle == loadCall = NoLoadCall

StoreIdle ==
    /\ stFocus = ""
    /\ stOps = 0
    /\ stClock = 1
    /\ memDir = {}
    /\ charIndex = EmptyIndex
    /\ charFiles = {}
    /\ presetIndex = EmptyIndex
    /\ presetFiles = {}
    /\ stCall = NoStCall

ScoreIdle == scoreCall = NoScoreCall

RaceIdle ==
    /\ raceStart = NoRaceBook
    /\ raceFile = NoRaceBook
    /\ raceNow = 0
    /\ raceProc = [p \in RaceProcs |-> NoRaceProc]
    /\ raceSaves = <<>>

(***************************************************************************)
(* World info: the call                                                    *)
(***************************************************************************)

WIInit ==
    /\ wiBook \in WIBooks
    /\ wiCall = NoWICall
    /\ MemIdle
    /\ KeyIdle
    /\ CtxIdle
    /\ LoadIdle
    /\ StoreIdle
    /\ ScoreIdle
    /\ RaceIdle

\* get_activated_entries(book, context, config); the book is left as it was,
\* so one call per book shows every outcome
GetActivatedEntries ==
    /\ ~wiCall.called
    /\ \E context \in WIContexts, config \in WIConfigs :
        LET cfg == IF config = None THEN [max_entries |-> DefaultMaxEntries] ELSE config[1]
            drawing == {i \in 1..Len(wiBook) :
                            passes_guards(wiBook[i]) /\ draws_random(wiBook[i])}
        IN  \E draw \in [drawing -> RandInts] :
                /\ wiCall' = [called |-> TRUE, context |-> context, config |-> config,
                              draw |-> draw,
                              result |-> get_activated_entries(wiBook, context,
                                                               cfg.max_entries, draw)]
                /\ wiBook' = book_entries_after(wiBook)
                /\ UNCHANGED exceptWI

WINext == GetActivatedEntries

SpecWI == WIInit /\ [][WINext]_vars

(***************************************************************************)
(* Memory: the store                                                       *)
(***************************************************************************)

MemInit ==
    /\ memFile \in {[entries |-> es, settings |-> st, updated_at |-> 0] :
                        es \in {<<>>, <<DisabledSeed>>}, st \in MemSettingsInputs}
    /\ memNow = 0
    /\ memCall = NoMemCall
    /\ memCalls = 0
    /\ memReturned = [i \in 1..Len(memFile.entries) |-> 0]
    /\ WIIdle
    /\ KeyIdle
    /\ CtxIdle
    /\ LoadIdle
    /\ StoreIdle
    /\ ScoreIdle
    /\ RaceIdle

\* add_memory(book_id, content, keywords=..., importance=...); every read of
\* datetime.now() returns a later instant. The behaviours fill the book
\* first and retrieve from it afterwards.
AddMemory ==
    /\ Len(memFile.entries) < MaxMem
    /\ memCalls = 0
    /\ ~memCall.called
    /\ \E inp \in AddInputs :
        LET now == memNow + 1
            entry == MemEntry(inp[1], inp[2], inp[3], TRUE, 0, now)
        IN  /\ memFile' = [memFile EXCEPT !.entries = Append(memFile.entries, entry),
                                          !.updated_at = now]
            /\ memNow' = now
            /\ memReturned' = Append(memReturned, 0)
    /\ memCall' = NoMemCall
    /\ UNCHANGED <<memCalls, exceptMem>>

\* retrieve_memories(book_id, context, max_memories=..., min_importance=..., sort_by=...)
\* with the arguments taken from the given sets; `previous` is what the
\* call before it returned, if this call repeats that call
RetrieveWith(contexts, max_set, min_set, sort_set, previous) ==
    /\ \E context \in contexts, max_memories \in max_set,
          min_importance \in min_set, sort_by \in sort_set :
        \E result \in {retrieved(memFile, context, max_memories, min_importance, sort_by)} :
            LET now == memNow + 1
            IN  /\ memFile' = IF result # <<>>
                              THEN [memFile EXCEPT
                                       !.entries = touched(memFile.entries, result, now),
                                       !.updated_at = now]
                              ELSE memFile
                /\ memNow' = now
                /\ memCall' = [called |-> TRUE, context |-> context,
                               max_memories |-> max_memories,
                               min_importance |-> min_importance, sort_by |-> sort_by,
                               limit |-> effective_limit(memFile.settings, max_memories),
                               min_imp |-> effective_min_importance(memFile.settings,
                                                                    min_importance),
                               order |-> effective_order(memFile.settings, sort_by),
                               loaded |-> memFile.entries, now |-> now, result |-> result,
                               previous |-> previous]
                /\ memReturned' = [i \in 1..Len(memReturned) |->
                                      IF \E p \in DOMAIN result : result[p] = i
                                      THEN memReturned[i] + 1 ELSE memReturned[i]]
    /\ memCalls' = memCalls + 1
    /\ UNCHANGED exceptMem

\* a retrieval with the keyword arguments taken from the given sets
Retrieve(max_set, min_set, sort_set) ==
    /\ ~memCall.called
    /\ RetrieveWith(MemContexts, max_set, min_set, sort_set, None)

\* a retrieval with a positive limit, or none, and a named strategy, or none
RetrieveMemories ==
    /\ memCalls < MaxCalls
    /\ Retrieve(MemMaxMemories, MemMinImportance, MemSortBy)

\* the one retrieval of a behaviour whose arguments may be falsy or negative
RetrieveMemoriesAnyArguments ==
    /\ memCalls = 0
    /\ Retrieve(ArgMaxMemories, ArgMinImportance, ArgSortBy)

\* `return result`: the caller has the list and the store is idle again
ReturnMemories ==
    /\ memCall.called
    /\ memCall' = NoMemCall
    /\ UNCHANGED <<memFile, memNow, memCalls, memReturned, exceptMem>>

MemNext == AddMemory \/ RetrieveMemories \/ ReturnMemories

SpecMem == MemInit /\ [][MemNext]_vars

\* the caller repeats the call it just made, with identical arguments and
\* nothing in between
RetrieveMemoriesAgain ==
    /\ memCall.called
    /\ memCalls < MaxCalls
    /\ RetrieveWith({memCall.context}, {memCall.max_memories}, {memCall.min_importance},
                    {memCall.sort_by}, Some(memCall.result))

MemRepeatNext == AddMemory \/ RetrieveMemories \/ RetrieveMemoriesAgain \/ ReturnMemories

SpecMemRepeat == MemInit /\ [][MemRepeatNext]_vars

MemArgsNext == AddMemory \/ RetrieveMemoriesAnyArguments \/ ReturnMemories

SpecMemArgs == MemInit /\ [][MemArgsNext]_vars

(***************************************************************************)
(* World info: one key against one context                                 *)
(***************************************************************************)

KeyInit ==
    /\ keyCall \in {[NoKeyCall EXCEPT !.key = k, !.context = c, !.case_sensitive = cs,
                                      !.match_whole_words = ww] :
                        k \in KeyInputs, c \in KeyContexts, cs \in BOOLEAN, ww \in BOOLEAN}
    /\ WIIdle
    /\ MemIdle
    /\ CtxIdle
    /\ LoadIdle
    /\ StoreIdle
    /\ ScoreIdle
    /\ RaceIdle

\* _key_matches(key, context, case_sensitive, whole_words)
KeyMatches ==
    /\ ~keyCall.called
    /\ keyCall' = [keyCall EXCEPT !.called = TRUE,
                                  !.result = key_matches(keyCall.key, keyCall.context,
                                                         keyCall.case_sensitive,
                                                         keyCall.match_whole_words)]
    /\ UNCHANGED exceptKey

KeyNext == KeyMatches

SpecKey == KeyInit /\ [][KeyNext]_vars

(***************************************************************************)
(* World info: the context builder over the stored books                   *)
(***************************************************************************)

CtxInit ==
    /\ \E n \in 1..MaxIndex :
          /\ wiIndex \in [1..n -> {[id |-> CtxIds[b], name |-> CtxIds[b], enabled |-> en] : b \in 1..n, en \in BOOLEAN}]
          /\ \A b \in 1..n : wiIndex[b].id = CtxIds[b]
          /\ \E present \in SUBSET {CtxIds[b] : b \in 1..n} : wiFiles \in [present -> CtxBooks]
    /\ ctxCall = NoCtxCall
    /\ WIIdle
    /\ MemIdle
    /\ KeyIdle
    /\ LoadIdle
    /\ StoreIdle
    /\ ScoreIdle
    /\ RaceIdle

\* _build_sillytavern_context, step 2: get_enabled_world_info, then
\* get_activated_entries per book on the same activation context
BuildContext ==
    /\ ~ctxCall.called
    /\ \E context \in CtxContexts :
        LET wi_books == get_enabled_world_info(wiIndex, wiFiles)
            drawing == {d \in UNION {{<<wi_books[p], i>> :
                                         i \in DOMAIN wiFiles[wiIndex[wi_books[p]].id]} :
                                     p \in DOMAIN wi_books} :
                          LET e == wiFiles[wiIndex[d[1]].id][d[2]]
                          IN  passes_guards(e) /\ draws_random(e)}
        IN  \E draw \in [drawing -> RandInts] :
                ctxCall' = [called |-> TRUE, context |-> context, draw |-> draw,
                            result |-> world_info_step(wiIndex, wiFiles, context, draw)]
    /\ UNCHANGED <<wiIndex, wiFiles, exceptCtx>>

CtxNext == BuildContext

SpecCtx == CtxInit /\ [][CtxNext]_vars

(***************************************************************************)
(* Persisted files: one load                                               *)
(***************************************************************************)

LoadInit ==
    /\ loadCall \in {[NoLoadCall EXCEPT !.store = store, !.file = file] :
                         store \in LoadStores, file \in LoadFiles}
    /\ WIIdle
    /\ MemIdle
    /\ KeyIdle
    /\ CtxIdle
    /\ StoreIdle
    /\ ScoreIdle
    /\ RaceIdle

\* load_book(book_id), get_world_info(book_id), get_character(char_id),
\* get_preset(preset_id) or _load_*_index() on the file
Load ==
    /\ ~loadCall.called
    /\ loadCall' = [loadCall EXCEPT !.called = TRUE,
                                    !.outcome = load(loadCall.store, loadCall.file)]
    /\ UNCHANGED exceptLoad

LoadNext == Load

SpecLoad == LoadInit /\ [][LoadNext]_vars

(***************************************************************************)
(* The stores: import, activate, deactivate, delete, toggle, memory books  *)
(***************************************************************************)

StoreInit ==
    /\ stFocus \in StStores
    /\ stOps = 0
    /\ stClock = 1
    /\ memDir = {}
    /\ charIndex = EmptyIndex
    /\ charFiles = {}
    /\ presetIndex = EmptyIndex
    /\ presetFiles = {}
    /\ stCall = NoStCall
    /\ WIIdle
    /\ MemIdle
    /\ KeyIdle
    /\ CtxIdle
    /\ LoadIdle
    /\ ScoreIdle
    /\ RaceIdle

\* one more operation, on the store in focus
StStep(store) ==
    /\ stFocus = store
    /\ stOps < MaxOps
    /\ stOps' = stOps + 1
    /\ UNCHANGED <<stFocus, exceptStore>>

\* an operation on the characters
OnCharacters(op, id, done) ==
    /\ StStep("characters")
    /\ charIndex' = done.index
    /\ charFiles' = done.files
    /\ stCall' = [NoStCall EXCEPT !.op = op, !.sid = id, !.ok = done.ok]
    /\ UNCHANGED <<stClock, memDir, presetIndex, presetFiles, wiIndex, wiFiles>>

\* an operation on the presets
OnPresets(op, id, done) ==
    /\ StStep("presets")
    /\ presetIndex' = done.index
    /\ presetFiles' = done.files
    /\ stCall' = [NoStCall EXCEPT !.op = op, !.sid = id, !.ok = done.ok]
    /\ UNCHANGED <<stClock, memDir, charIndex, charFiles, wiIndex, wiFiles>>

\* an operation on the world-info books
OnWorldInfo(op, id, enabled, done) ==
    /\ StStep("worldinfo")
    /\ wiIndex' = done.index
    /\ wiFiles' = done.files
    /\ stCall' = [NoStCall EXCEPT !.op = op, !.sid = id, !.enabled = enabled, !.ok = done.ok]
    /\ UNCHANGED <<stClock, memDir, charIndex, charFiles, presetIndex, presetFiles>>

\* an operation on the memory books, reading the clock at ts
OnMemories(call, ts, dir) ==
    /\ StStep("memories")
    /\ stClock' = ts
    /\ memDir' = dir
    /\ stCall' = call
    /\ UNCHANGED <<charIndex, charFiles, presetIndex, presetFiles, wiIndex, wiFiles>>

ImportCharacter ==
    \E card \in StCards :
        OnCharacters("import_character", card.id, import_stored(charIndex, charFiles, card))

ActivateCharacter ==
    \E id \in StIds :
        OnCharacters("activate_character", id, activate(charIndex, charFiles, id))

DeactivateCharacter ==
    OnCharacters("deactivate_character", "", deactivate(charIndex, charFiles))

DeleteCharacter ==
    \E id \in StIds :
        OnCharacters("delete_character", id, delete_stored(charIndex, charFiles, id))

ImportPreset ==
    \E card \in StCards :
        OnPresets("import_preset", card.id, import_stored(presetIndex, presetFiles, card))

ActivatePreset ==
    \E id \in StIds :
        OnPresets("activate_preset", id, activate(presetIndex, presetFiles, id))

DeactivatePreset ==
    OnPresets("deactivate_preset", "", deactivate(presetIndex, presetFiles))

DeletePreset ==
    \E id \in StIds :
        OnPresets("delete_preset", id, delete_stored(presetIndex, presetFiles, id))

ImportWorldInfo ==
    \E book \in StBooks :
        OnWorldInfo("import_world_info", book.id, book.enabled,
                    import_world_info(wiIndex, wiFiles, book))

SetWorldInfoEnabled ==
    \E id \in StIds, enabled \in BOOLEAN :
        OnWorldInfo("set_world_info_enabled", id, enabled,
                    set_world_info_enabled(wiIndex, wiFiles, id, enabled))

DeleteWorldInfo ==
    \E id \in StIds :
        OnWorldInfo("delete_world_info", id, FALSE, delete_world_info(wiIndex, wiFiles, id))

\* the instants the clock can show at the next reading
StInstants == {stClock, stClock + 1}

\* get_or_create_book: the first file glob yields with that character_id,
\* else a new book saved under the id made of the name and the instant
GetOrCreateBook ==
    \E ch \in StCharacters, session_key \in StSessions, ts \in StInstants :
        LET found == books_of_character(memDir, ch.character_id)
            call == [NoStCall EXCEPT !.op = "get_or_create_book",
                                     !.character_id = ch.character_id,
                                     !.session_key = session_key, !.ok = TRUE]
        IN  IF found # {}
            THEN \E book \in found :
                    OnMemories([call EXCEPT !.ret = book.id], ts, memDir)
            ELSE LET book == created_book(ch.character_id, ch.character_name, session_key, ts)
                 IN  OnMemories([call EXCEPT !.ret = book.id], ts, save_book(memDir, book))

\* the book ids and the memory ids operations are called with
StBookIds == {b.id : b \in memDir} \cup {UnknownBook}
StMemoryIds == UNION {Range(b.entries) : b \in memDir} \cup {UnknownMemory}

AddMemoryToBook ==
    \E book_id \in StBookIds, ts \in StInstants, r \in {MemIdLo, MemIdHi} :
        LET done == add_memory(memDir, book_id, ts, r)
        IN  OnMemories([NoStCall EXCEPT !.op = "add_memory", !.bid = book_id,
                                        !.mid = <<ts, r>>, !.ok = done.ok],
                       ts, done.dir)

DeleteBook ==
    \E book_id \in StBookIds, ts \in StInstants :
        LET done == delete_book(memDir, book_id)
        IN  OnMemories([NoStCall EXCEPT !.op = "delete_book", !.bid = book_id,
                                        !.ok = done.ok],
                       ts, done.dir)

DeleteMemory ==
    \E book_id \in StBookIds, memory_id \in StMemoryIds, ts \in StInstants :
        LET done == delete_memory(memDir, book_id, memory_id)
        IN  OnMemories([NoStCall EXCEPT !.op = "delete_memory", !.bid = book_id,
                                        !.mid = memory_id, !.ok = done.ok],
                       ts, done.dir)

StoreNext ==
    \/ ImportCharacter
    \/ ActivateCharacter
    \/ DeactivateCharacter
    \/ DeleteCharacter
    \/ ImportPreset
    \/ ActivatePreset
    \/ DeactivatePreset
    \/ DeletePreset
    \/ ImportWorldInfo
    \/ SetWorldInfoEnabled
    \/ DeleteWorldInfo
    \/ GetOrCreateBook
    \/ AddMemoryToBook
    \/ DeleteBook
    \/ DeleteMemory

SpecStore == StoreInit /\ [][StoreNext]_vars

(***************************************************************************)
(* Memory: one keyword score                                               *)
(***************************************************************************)

ScoreInit ==
    /\ scoreCall \in {[NoScoreCall EXCEPT !.entry = entry, !.text = text] :
                          entry \in ScoreEntries, text \in ScoreTexts}
    /\ WIIdle
    /\ MemIdle
    /\ KeyIdle
    /\ CtxIdle
    /\ LoadIdle
    /\ StoreIdle
    /\ RaceIdle

\* keywords = _extract_keywords(context); _keyword_score(entry, keywords)
KeywordScore ==
    /\ ~scoreCall.called
    /\ LET keywords == extract_keywords(scoreCall.text)
       IN  scoreCall' = [scoreCall EXCEPT !.called = TRUE, !.keywords = keywords,
                                          !.score = keyword_score(scoreCall.entry, keywords)]
    /\ UNCHANGED exceptScore

SpecScore == ScoreInit /\ [][KeywordScore]_vars

(***************************************************************************)
(* Memory: two callers on one book                                         *)
(***************************************************************************)

RaceInit ==
    /\ raceStart \in RaceBooks
    /\ raceFile = raceStart
    /\ raceNow = 0
    /\ raceProc = [p \in RaceProcs |-> NoRaceProc]
    /\ raceSaves = <<>>
    /\ WIIdle
    /\ MemIdle
    /\ KeyIdle
    /\ CtxIdle
    /\ LoadIdle
    /\ StoreIdle
    /\ ScoreIdle

\* mutant: the save keeps the entries of the file that the book lacks
written_merged(file, book) ==
    [book EXCEPT !.entries =
        book.entries \o SelectSeq(file.entries,
                                  LAMBDA e : \A i \in DOMAIN book.entries :
                                                 book.entries[i].id # e.id)]

\* save_book(book): path.write_text of the whole book replaces the file
written(file, book) == book

\* caller p has loaded the book and holds `book`, the loaded book after the
\* operation's changes, up to its save_book call if it reaches one
RaceLoaded(p, op, book, saves, result, id, now) ==
    /\ raceProc[p].pc = "idle"
    /\ raceProc' = [raceProc EXCEPT ![p] =
                       [op |-> op, pc |-> "loaded", loaded |-> raceFile, book |-> book,
                        saves |-> saves, result |-> result, id |-> id,
                        seen |-> Len(raceSaves)]]
    /\ raceNow' = now
    /\ UNCHANGED <<raceStart, raceFile, raceSaves, exceptRace>>

\* retrieve_memories from load_book to the `if result:` bookkeeping
RaceRetrieve ==
    \E p \in RaceProcs, context \in MemContexts, max_memories \in MemMaxMemories :
        LET now == raceNow + 1
            result == retrieved(raceFile, context, max_memories, None, None)
        IN  RaceLoaded(p, "retrieve",
                       IF result # <<>>
                       THEN [raceFile EXCEPT !.entries = touched(raceFile.entries, result, now),
                                             !.updated_at = now]
                       ELSE raceFile,
                       result # <<>>, result, 0, now)

\* add_memory from load_book to book.updated_at = now
RaceAdd ==
    \E p \in RaceProcs, inp \in AddInputs, id \in RaceNewIds :
        LET now == raceNow + 1
        IN  RaceLoaded(p, "add",
                       [raceFile EXCEPT !.entries = Append(raceFile.entries,
                                                           RaceEntry(id, inp, now)),
                                        !.updated_at = now],
                       TRUE, <<>>, id, now)

\* delete_memory from load_book to the length comparison
RaceDelete ==
    \E p \in RaceProcs, id \in RaceDeleteIds :
        LET kept == SelectSeq(raceFile.entries, LAMBDA e : e.id # id)
        IN  RaceLoaded(p, "delete", [raceFile EXCEPT !.entries = kept],
                       Len(kept) # Len(raceFile.entries), <<>>, id, raceNow)

\* self.save_book(book) of the operation caller p is in, and its return
RaceSave ==
    \E p \in RaceProcs :
        /\ raceProc[p].pc = "loaded"
        /\ raceProc[p].saves
        /\ raceFile' = written(raceFile, raceProc[p].book)
        /\ raceSaves' = Append(raceSaves, p)
        /\ raceProc' = [raceProc EXCEPT ![p].pc = "done"]
        /\ UNCHANGED <<raceStart, raceNow, exceptRace>>

\* the operation of caller p returns without a save: a retrieval that found
\* nothing, a delete_memory of an id the book does not hold
RaceReturn ==
    \E p \in RaceProcs :
        /\ raceProc[p].pc = "loaded"
        /\ ~raceProc[p].saves
        /\ raceProc' = [raceProc EXCEPT ![p].pc = "done"]
        /\ UNCHANGED <<raceStart, raceFile, raceNow, raceSaves, exceptRace>>

RaceNext == RaceRetrieve \/ RaceAdd \/ RaceDelete \/ RaceSave \/ RaceReturn

SpecRace == RaceInit /\ [][RaceNext]_vars

(***************************************************************************)
(* World info: properties                                                  *)
(***************************************************************************)

Min(a, b) == IF a < b THEN a ELSE b

\* the config the last call ran with (config or WorldInfoConfig())
WICfg == IF wiCall.config = None THEN [max_entries |-> DefaultMaxEntries]
         ELSE wiCall.config[1]

WIReturned(i) == \E p \in DOMAIN wiCall.result : wiCall.result[p] = i

\* the call cannot have cut its list: the limit is off or not below the book's length
WINoCut == WICfg.max_entries <= 0 \/ Len(wiBook) <= WICfg.max_entries

\* the number of keys of the list that match the context of the last call
MatchCount(keys, entry) ==
    Cardinality({j \in DOMAIN keys :
        key_matches(keys[j], wiCall.context, entry.case_sensitive, entry.match_whole_words)})

\* C1: an entry with disable = TRUE is never among the entries
\* get_activated_entries returns, whatever its other fields and the context
C1_DisabledNeverReturned ==
    wiCall.called =>
        \A i \in DOMAIN wiBook : wiBook[i].disable => ~WIReturned(i)

\* a call whose context matches a key of a disabled entry that is also
\* constant, has content and probability 100
C1_Witness ==
    /\ wiCall.called
    /\ \E i \in DOMAIN wiBook :
          /\ wiBook[i].disable /\ wiBook[i].constant
          /\ Strip(wiBook[i].content) # <<>>
          /\ wiBook[i].probability = 100
          /\ MatchCount(wiBook[i].key, wiBook[i]) > 0

\* C2: a constant, enabled entry with non-blank content is returned for every
\* context and every key/selective/probability setting, without a draw,
\* unless the call cut its list at max_entries (then the list is full and
\* holds only entries ordered no later than it)
C2_ConstantAlwaysActive ==
    wiCall.called =>
        \A i \in DOMAIN wiBook :
            (wiBook[i].constant /\ ~wiBook[i].disable /\ Strip(wiBook[i].content) # <<>>) =>
                /\ i \notin DOMAIN wiCall.draw
                /\ \/ WIReturned(i)
                   \/ /\ WICfg.max_entries > 0
                      /\ Len(wiCall.result) = WICfg.max_entries
                      /\ \A p \in DOMAIN wiCall.result :
                            wiBook[wiCall.result[p]].order <= wiBook[i].order

\* a constant entry with use_probability and probability 0, no keys, returned
\* for the empty context
C2_Witness ==
    /\ wiCall.called
    /\ wiCall.context = <<>>
    /\ \E i \in DOMAIN wiBook :
          /\ wiBook[i].constant /\ ~wiBook[i].disable
          /\ wiBook[i].use_probability /\ wiBook[i].probability = 0
          /\ wiBook[i].key = <<>>
          /\ WIReturned(i)

\* C3: an entry with no keys and constant = FALSE is never returned
C3_NoKeysNeverActive ==
    wiCall.called =>
        \A i \in DOMAIN wiBook :
            (wiBook[i].key = <<>> /\ ~wiBook[i].constant) => ~WIReturned(i)

\* a call with a non-empty context on an enabled keyless entry with content
C3_Witness ==
    /\ wiCall.called
    /\ wiCall.context # <<>>
    /\ \E i \in DOMAIN wiBook :
          /\ wiBook[i].key = <<>> /\ ~wiBook[i].constant
          /\ ~wiBook[i].disable /\ Strip(wiBook[i].content) # <<>>
          /\ wiBook[i].selective /\ wiBook[i].keysecondary # <<>>

\* the entry reaches the selective test unless its primary keys fail: it is
\* enabled, has content and keys, is not constant and passes the draw
WIReachesMatching(i) ==
    /\ passes_guards(wiBook[i])
    /\ ~wiBook[i].constant
    /\ wiBook[i].key # <<>>
    /\ i \in DOMAIN wiCall.draw => wiCall.draw[i] <= wiBook[i].probability

\* C4: for such an entry with selective = TRUE, secondary keys and logic
\* 0..3, being returned equals: a primary key matches, and (0) some secondary
\* key matches, (1) not all do, (2) none does, (3) all do
C4_SelectiveLogic ==
    (wiCall.called /\ WINoCut) =>
        \A i \in DOMAIN wiBook :
            LET e == wiBook[i]
                n == Len(e.keysecondary)
                m == MatchCount(e.keysecondary, e)
                selects == WIReachesMatching(i) /\ e.selective /\ n > 0
            IN  /\ (selects /\ e.selective_logic \in 0..3) =>
                       (WIReturned(i) <=>
                           /\ MatchCount(e.key, e) > 0
                           /\ CASE e.selective_logic = 0 -> m >= 1
                                [] e.selective_logic = 1 -> m < n
                                [] e.selective_logic = 2 -> m = 0
                                [] e.selective_logic = 3 -> m = n)
                /\ (/\ selects /\ e.selective_logic = 3
                    /\ e.key = <<<<"j">>, <<"k">>>>
                    /\ e.keysecondary = <<<<"a">>, <<"b">>>>) =>
                       /\ wiCall.context = <<"k", " ", "a">> => ~WIReturned(i)
                       /\ wiCall.context = <<"k", " ", "a", " ", "b">> => WIReturned(i)

\* AND_ALL with secondary keys [a, b] is returned for the context "k a b"
C4_Witness ==
    /\ wiCall.called
    /\ wiCall.context = <<"k", " ", "a", " ", "b">>
    /\ Len(wiBook) = 1
    /\ wiBook[1].selective /\ wiBook[1].selective_logic = 3
    /\ wiBook[1].keysecondary = <<<<"a">>, <<"b">>>>
    /\ ~wiBook[1].constant
    /\ wiCall.result = <<1>>

\* C10: the returned list is ascending in order, and entries of equal order
\* keep the book's iteration order
C10_SortedByOrder ==
    wiCall.called =>
        \A p, q \in DOMAIN wiCall.result :
            p < q =>
                \/ wiBook[wiCall.result[p]].order < wiBook[wiCall.result[q]].order
                \/ /\ wiBook[wiCall.result[p]].order = wiBook[wiCall.result[q]].order
                   /\ wiCall.result[p] < wiCall.result[q]

\* entries of orders [30, 10, 20], all activated, come back as [10, 20, 30]
C10_Witness ==
    /\ wiCall.called
    /\ Len(wiBook) = 3
    /\ wiBook[1].order = 30 /\ wiBook[2].order = 10 /\ wiBook[3].order = 20
    /\ wiCall.result = <<2, 3, 1>>

\* the secondary keys let the entry through: selective off, no secondary
\* keys, or the logic's condition on the number of secondary keys that match
WISelectiveOk(i) ==
    LET e == wiBook[i]
        n == Len(e.keysecondary)
        m == MatchCount(e.keysecondary, e)
    IN  \/ ~e.selective
        \/ n = 0
        \/ CASE e.selective_logic = 0 -> m >= 1
              [] e.selective_logic = 1 -> m < n
              [] e.selective_logic = 2 -> m = 0
              [] e.selective_logic = 3 -> m = n
              [] OTHER -> TRUE

\* a primary key matches and the secondary keys let the entry through
WIKeysDecide(i) == MatchCount(wiBook[i].key, wiBook[i]) > 0 /\ WISelectiveOk(i)

\* entry i is one of the activated entries of the last call
WIActive(i) ==
    LET e == wiBook[i]
    IN  /\ ~e.disable
        /\ Strip(e.content) # <<>>
        /\ \/ e.constant
           \/ /\ e.key # <<>>
              /\ i \in DOMAIN wiCall.draw => wiCall.draw[i] <= e.probability
              /\ WIKeysDecide(i)

WIActivated == {i \in DOMAIN wiBook : WIActive(i)}

\* i stands before j in the order-sorted list
WIBefore(i, j) ==
    \/ wiBook[i].order < wiBook[j].order
    \/ wiBook[i].order = wiBook[j].order /\ i < j

\* C11: with max_entries > 0 the result is the first min(max_entries, n) of
\* the n activated entries in order-sorted order, so every dropped entry
\* stands after every returned one; with max_entries <= 0 all n are returned
C11_Truncation ==
    wiCall.called =>
        /\ \A p \in DOMAIN wiCall.result : wiCall.result[p] \in WIActivated
        /\ \A p, q \in DOMAIN wiCall.result : p < q => WIBefore(wiCall.result[p], wiCall.result[q])
        /\ Len(wiCall.result) = IF WICfg.max_entries > 0
                                THEN Min(WICfg.max_entries, Cardinality(WIActivated))
                                ELSE Cardinality(WIActivated)
        /\ \A i \in WIActivated :
              ~WIReturned(i) => \A p \in DOMAIN wiCall.result : WIBefore(wiCall.result[p], i)

\* max_entries = 2 and three activated entries of orders [30, 10, 20]: the
\* entries of orders 10 and 20 come back and the one of order 30 is dropped
C11_Witness ==
    /\ wiCall.called
    /\ WICfg.max_entries = 2
    /\ Len(wiBook) = 3
    /\ wiBook[1].order = 30 /\ wiBook[2].order = 10 /\ wiBook[3].order = 20
    /\ WIActivated = {1, 2, 3}
    /\ wiCall.result = <<2, 3>>

\* C12: an enabled entry with content and keys that is not constant draws once
\* when use_probability is set and probability < 100: the draw is in 1..100,
\* a draw above the probability leaves the entry out, and a draw up to it
\* leaves the outcome to the keys; otherwise the entry draws nothing and the
\* keys alone decide
C12_ProbabilityGate ==
    wiCall.called =>
        \A i \in DOMAIN wiBook :
            LET e == wiBook[i]
            IN  (~e.disable /\ Strip(e.content) # <<>> /\ ~e.constant /\ e.key # <<>>) =>
                    IF e.use_probability /\ e.probability < 100
                    THEN /\ i \in DOMAIN wiCall.draw
                         /\ wiCall.draw[i] \in RandLo..RandHi
                         /\ wiCall.draw[i] > e.probability => ~WIReturned(i)
                         /\ e.probability <= 0 => ~WIReturned(i)
                         /\ (wiCall.draw[i] <= e.probability /\ WINoCut) =>
                                (WIReturned(i) <=> WIKeysDecide(i))
                    ELSE /\ i \notin DOMAIN wiCall.draw
                         /\ WINoCut => (WIReturned(i) <=> WIKeysDecide(i))

\* probability 50 and a draw of exactly 50: the entry, whose key matches, is returned
C12_Witness ==
    /\ wiCall.called
    /\ Len(wiBook) = 1
    /\ wiBook[1].use_probability /\ wiBook[1].probability = 50
    /\ 1 \in DOMAIN wiCall.draw
    /\ wiCall.draw[1] = 50
    /\ wiCall.result = <<1>>

\* entry i is activated whatever is drawn: it needs no draw
WIActiveWithoutDraw(i) ==
    LET e == wiBook[i]
    IN  /\ ~e.disable
        /\ Strip(e.content) # <<>>
        /\ e.constant \/ (e.key # <<>> /\ WIKeysDecide(i))

\* C15: a step never changes the book (its entries, their order, their
\* fields), and a call in which no entry draws returns a list fixed by the
\* entries, the context and the config: all entries that activate without a
\* draw, in order-sorted order, cut at max_entries
C15_NoSideEffects ==
    /\ [][wiBook' = wiBook]_vars
    /\ []((wiCall.called /\ wiCall.draw = <<>>) =>
            /\ \A p \in DOMAIN wiCall.result : WIActiveWithoutDraw(wiCall.result[p])
            /\ \A p, q \in DOMAIN wiCall.result :
                  p < q => WIBefore(wiCall.result[p], wiCall.result[q])
            /\ \A i \in DOMAIN wiBook :
                  (WIActiveWithoutDraw(i) /\ ~WIReturned(i)) =>
                      /\ Len(wiCall.result) = WICfg.max_entries
                      /\ \A p \in DOMAIN wiCall.result : WIBefore(wiCall.result[p], i))

\* a book whose entries stand in the order [20, 10] was read and the list
\* came back as [10, 20]
C15_Witness ==
    /\ wiCall.called
    /\ wiCall.draw = <<>>
    /\ Len(wiBook) = 2
    /\ wiBook[1].order = 20 /\ wiBook[2].order = 10
    /\ wiCall.result = <<2, 1>>

\* the content is empty or holds whitespace only
WIBlank(content) == \A j \in DOMAIN content : content[j] \in SpaceChars

\* C21: an entry whose content is empty or whitespace-only is never returned
\* by get_activated_entries, even when it is constant or its keys match
C21_BlankContentNeverReturned ==
    wiCall.called =>
        \A i \in DOMAIN wiBook : WIBlank(wiBook[i].content) => ~WIReturned(i)

\* a call on an enabled constant entry whose content is one space, and
\* whose key matches the context: nothing is returned
C21_Witness ==
    /\ wiCall.called
    /\ Len(wiBook) = 1
    /\ wiBook[1].content = <<" ">>
    /\ ~wiBook[1].disable /\ wiBook[1].constant
    /\ MatchCount(wiBook[1].key, wiBook[1]) > 0
    /\ wiCall.result = <<>>

\* the draw, if any, lets entry i through
WIDrawPasses(i) == i \in DOMAIN wiCall.draw => wiCall.draw[i] <= wiBook[i].probability

\* C22: an entry with a primary match, selective set and secondary keys is
\* returned when its selective_logic is none of 0..3; and when selective is
\* off or there are no secondary keys, being returned is decided by the
\* guards, constant, the draw and the primary keys alone
C22_UnknownLogicPermissive ==
    (wiCall.called /\ WINoCut) =>
        \A i \in DOMAIN wiBook :
            LET e == wiBook[i]
                primary == MatchCount(e.key, e) > 0
            IN  /\ (/\ ~e.disable /\ ~WIBlank(e.content) /\ ~e.constant
                    /\ WIDrawPasses(i) /\ primary
                    /\ e.selective /\ e.keysecondary # <<>>
                    /\ e.selective_logic \notin 0..3) => WIReturned(i)
                /\ (~e.selective \/ e.keysecondary = <<>>) =>
                       (WIReturned(i) <=>
                           /\ ~e.disable /\ ~WIBlank(e.content)
                           /\ e.constant \/ (e.key # <<>> /\ WIDrawPasses(i) /\ primary))

\* selective_logic 4 with secondary keys of which none is in the context
\* "k": the entry, whose primary key matches, is returned
C22_Witness ==
    /\ wiCall.called
    /\ Len(wiBook) = 1
    /\ wiCall.context = <<"k">>
    /\ wiBook[1].selective /\ wiBook[1].selective_logic = 4
    /\ wiBook[1].keysecondary # <<>>
    /\ MatchCount(wiBook[1].keysecondary, wiBook[1]) = 0
    /\ ~wiBook[1].constant
    /\ wiCall.result = <<1>>

\* the entries that consume a draw, by their fields alone
WIDrawing ==
    {i \in DOMAIN wiBook :
        /\ ~wiBook[i].disable /\ ~WIBlank(wiBook[i].content)
        /\ ~wiBook[i].constant /\ wiBook[i].key # <<>>
        /\ wiBook[i].use_probability /\ wiBook[i].probability < 100}

\* C24: the draws one call consumes are those of the enabled entries with
\* content and keys that are not constant and have use_probability set and
\* probability < 100, one each, whatever the context and whether or not a
\* key matches
C24_DrawsBeforeMatching ==
    wiCall.called =>
        /\ DOMAIN wiCall.draw = WIDrawing
        /\ Cardinality(DOMAIN wiCall.draw) = Cardinality(WIDrawing)

\* a call with the empty context, which no key matches, on a book of which
\* two entries drew
C24_Witness ==
    /\ wiCall.called
    /\ wiCall.context = <<>>
    /\ Cardinality(DOMAIN wiCall.draw) = 2
    /\ \A i \in DOMAIN wiCall.draw : MatchCount(wiBook[i].key, wiBook[i]) = 0

\* the number of keys of the list that occur in the context (the stored
\* books match case-insensitively and not by whole words)
CtxMatchCount(keys) ==
    Cardinality({j \in DOMAIN keys : Contains(Lower(ctxCall.context), Lower(keys[j]))})

\* the books the builder reads: enabled in the index and stored
CtxEnabled == {b \in DOMAIN wiIndex : wiIndex[b].enabled /\ wiIndex[b].id \in DOMAIN wiFiles}

CtxBook(b) == wiFiles[wiIndex[b].id]

\* the entries of book b that activate, by the fields of that book's entries,
\* the context and that book's draws only (the stored books use no secondary keys)
CtxActivated(b) ==
    {i \in DOMAIN CtxBook(b) :
        LET e == CtxBook(b)[i]
        IN  /\ ~e.disable
            /\ Strip(e.content) # <<>>
            /\ \/ e.constant
               \/ /\ CtxMatchCount(e.key) > 0
                  /\ <<b, i>> \in DOMAIN ctxCall.draw => ctxCall.draw[<<b, i>>] <= e.probability}

\* within one book: lower order first, book order among equals
CtxBefore(b, i, j) ==
    \/ CtxBook(b)[i].order < CtxBook(b)[j].order
    \/ CtxBook(b)[i].order = CtxBook(b)[j].order /\ i < j

CtxReturned(b, i) == \E p \in DOMAIN ctxCall.result : ctxCall.result[p] = <<b, i>>

\* C19: the entries handed to the prompt are, book by book in index order
\* over the enabled stored books, each book's own activated entries in that
\* book's order-sorted order cut at the default max_entries; nothing is
\* sorted or cut across books
C19_PerBookConcatenation ==
    ctxCall.called =>
        /\ \A p \in DOMAIN ctxCall.result :
              /\ ctxCall.result[p][1] \in CtxEnabled
              /\ ctxCall.result[p][2] \in CtxActivated(ctxCall.result[p][1])
        /\ \A p, q \in DOMAIN ctxCall.result :
              p < q =>
                  \/ ctxCall.result[p][1] < ctxCall.result[q][1]
                  \/ /\ ctxCall.result[p][1] = ctxCall.result[q][1]
                     /\ CtxBefore(ctxCall.result[p][1], ctxCall.result[p][2], ctxCall.result[q][2])
        /\ \A b \in CtxEnabled :
              /\ Cardinality({p \in DOMAIN ctxCall.result : ctxCall.result[p][1] = b})
                     = Min(DefaultMaxEntries, Cardinality(CtxActivated(b)))
              /\ \A i \in CtxActivated(b) :
                    ~CtxReturned(b, i) =>
                        \A j \in CtxActivated(b) : CtxReturned(b, j) => CtxBefore(b, j, i)

\* three enabled books: the big book first, cut to its ten lowest orders;
\* later books follow it with entries of lower order than its last, and the
\* whole list is longer than max_entries
C19_Witness ==
    /\ ctxCall.called
    /\ Cardinality(CtxEnabled) = 3
    /\ CtxBook(1) = CtxBigBook
    /\ ~CtxReturned(1, 1)
    /\ Len(ctxCall.result) > DefaultMaxEntries + 1
    /\ \E p \in DOMAIN ctxCall.result :
          /\ p > DefaultMaxEntries
          /\ ctxCall.result[p][1] > 1
          /\ CtxBook(ctxCall.result[p][1])[ctxCall.result[p][2]].order
                 < CtxBook(1)[ctxCall.result[DefaultMaxEntries][2]].order

\* the key and the context of the key call as compared: as they are when
\* case_sensitive, lower-cased otherwise
KeyCompared == IF keyCall.case_sensitive THEN keyCall.key ELSE Lower(keyCall.key)
ContextCompared == IF keyCall.case_sensitive THEN keyCall.context ELSE Lower(keyCall.context)

\* the offsets at which the key occurs in the context
KeyOccurrences ==
    {i \in 0..(Len(ContextCompared) - Len(KeyCompared)) :
        \A j \in 1..Len(KeyCompared) : ContextCompared[i + j] = KeyCompared[j]}

\* position p of the context holds a letter, a digit or an underscore
KeyWordAt(p) == p \in 1..Len(keyCall.context) /\ keyCall.context[p] \in WordChars

\* the occurrence at offset i has a word boundary on each side: on each side
\* exactly one of the two neighbouring positions holds a word character
KeyDelimited(i) ==
    /\ KeyWordAt(i) # KeyWordAt(i + 1)
    /\ KeyWordAt(i + Len(keyCall.key)) # KeyWordAt(i + Len(keyCall.key) + 1)

KeyBlank == \A j \in DOMAIN keyCall.key : keyCall.key[j] \in SpaceChars

\* C20: a blank key never matches; with match_whole_words the key matches
\* exactly when some occurrence is delimited by word boundaries ("cat" not in
\* "category", but in "the cat sat"); without it exactly when it occurs; and
\* case is ignored unless case_sensitive
C20_KeyMatching ==
    keyCall.called =>
        /\ KeyBlank => ~keyCall.result
        /\ (~KeyBlank /\ keyCall.match_whole_words) =>
               (keyCall.result <=> \E i \in KeyOccurrences : KeyDelimited(i))
        /\ (~KeyBlank /\ ~keyCall.match_whole_words) =>
               (keyCall.result <=> KeyOccurrences # {})
        /\ (keyCall.key = <<"c", "a", "t">> /\ keyCall.match_whole_words) =>
               /\ keyCall.context = <<"c", "a", "t", "e", "g", "o", "r", "y">> => ~keyCall.result
               /\ keyCall.context = <<"t", "h", "e", " ", "c", "a", "t", " ", "s", "a", "t">>
                      => keyCall.result
        /\ (keyCall.key = <<"c", "a", "t">>
            /\ keyCall.context = <<"T", "h", "e", " ", "C", "A", "T", "!">>) =>
               (keyCall.result <=> ~keyCall.case_sensitive)

\* whole words on, case-sensitive: "cat" was looked for in "category" and not found
C20_Witness ==
    /\ keyCall.called
    /\ keyCall.key = <<"c", "a", "t">>
    /\ keyCall.context = <<"c", "a", "t", "e", "g", "o", "r", "y">>
    /\ keyCall.match_whole_words
    /\ keyCall.case_sensitive
    /\ ~keyCall.result

(***************************************************************************)
(* Memory: properties                                                      *)
(***************************************************************************)

\* the effective values of the last call
MemLimit == effective_limit(memFile.settings, memCall.max_memories)
MemMinImp == effective_min_importance(memFile.settings, memCall.min_importance)
MemOrder == effective_order(memFile.settings, memCall.sort_by)

MemReturnedBy(i) == \E p \in DOMAIN memCall.result : memCall.result[p] = i

\* the entries of the loaded book that are enabled and reach the threshold
MemEligible ==
    {i \in DOMAIN memCall.loaded :
        memCall.loaded[i].enabled /\ memCall.loaded[i].importance >= MemMinImp}

\* the keywords of each context of MemContexts
KeywordsOf == [c \in MemContexts |-> extract_keywords(c)]

\* the keyword score of a loaded entry against the context of the last call
MemScore(i) == keyword_score(memCall.loaded[i], KeywordsOf[memCall.context])

\* keyword scoring ran: non-blank context, retrieval by keyword on, keywords found
MemKeywordsUsed ==
    /\ Strip(memCall.context) # <<>>
    /\ memFile.settings.use_keyword_retrieval
    /\ KeywordsOf[memCall.context] # <<>>

MemPositive == {i \in MemEligible : MemScore(i) > 0}

\* keyword scoring replaced the candidates
MemReplaced == MemKeywordsUsed /\ MemPositive # {}

\* the value the strategy sorts by, read from the book as loaded
MemSortKey(i) ==
    CASE MemOrder = "importance" -> memCall.loaded[i].importance
      [] MemOrder = "recency" -> memCall.loaded[i].last_accessed_at
      [] MemOrder = "access_count" -> memCall.loaded[i].access_count
      [] OTHER -> 0

\* i comes before j in the configured order: greater key first, book order among equals
MemBefore(i, j) ==
    \/ MemSortKey(i) > MemSortKey(j)
    \/ MemSortKey(i) = MemSortKey(j) /\ i < j

\* C5: every returned entry is enabled and has importance >= the effective
\* minimum, whatever its keyword score
C5_ReturnedAreEligible ==
    memCall.called =>
        \A p \in DOMAIN memCall.result :
            /\ memCall.loaded[memCall.result[p]].enabled
            /\ memCall.loaded[memCall.result[p]].importance >= MemMinImp

\* threshold 50, an entry of importance 40 is the only keyword match among the
\* enabled entries, and the call returns other entries but not it
C5_Witness ==
    /\ memCall.called
    /\ MemKeywordsUsed
    /\ MemMinImp = 50
    /\ memCall.result # <<>>
    /\ \E i \in DOMAIN memCall.loaded :
          /\ memCall.loaded[i].enabled /\ memCall.loaded[i].importance = 40
          /\ MemScore(i) > 0
          /\ ~MemReturnedBy(i)
          /\ \A j \in DOMAIN memCall.loaded :
                (j # i /\ memCall.loaded[j].enabled) => MemScore(j) = 0

\* C6: when keyword scoring ran and some eligible entry scored, the
\* candidates are exactly the eligible entries that scored: no entry of score 0
\* is returned, and the result takes min(limit, number that scored) of them
C6_KeywordReplacement ==
    (memCall.called /\ MemReplaced) =>
        /\ \A p \in DOMAIN memCall.result : memCall.result[p] \in MemPositive
        /\ Len(memCall.result) = Min(MemLimit, Cardinality(MemPositive))

\* fewer entries scored than the limit allows, an eligible entry of score 0
\* exists, and only the ones that scored came back
C6_Witness ==
    /\ memCall.called /\ MemReplaced
    /\ Cardinality(MemPositive) < MemLimit
    /\ MemEligible \ MemPositive # {}
    /\ Len(memCall.result) = Cardinality(MemPositive)

\* C7: when keyword scoring did not replace the candidates, the result is the
\* first min(limit, n) of the n eligible entries in the configured order (book
\* order when the strategy is none of the three), and it is empty only if no
\* entry is eligible
C7_FallbackToFiltered ==
    (memCall.called /\ ~MemReplaced) =>
        /\ \A p \in DOMAIN memCall.result : memCall.result[p] \in MemEligible
        /\ Len(memCall.result) = Min(MemLimit, Cardinality(MemEligible))
        /\ \A p, q \in DOMAIN memCall.result :
              p < q => MemBefore(memCall.result[p], memCall.result[q])
        /\ \A i \in MemEligible :
              ~MemReturnedBy(i) =>
                  \A p \in DOMAIN memCall.result : MemBefore(memCall.result[p], i)
        /\ memCall.result = <<>> => MemEligible = {}

\* the unrelated context "owl", keywords in use, strategy importance: two
\* eligible entries, the less important first in the book, both returned with
\* the more important first
C7_Witness ==
    /\ memCall.called
    /\ MemKeywordsUsed /\ MemPositive = {}
    /\ MemOrder = "importance"
    /\ Cardinality(MemEligible) = 2
    /\ Len(memCall.result) = 2
    /\ memCall.result[1] > memCall.result[2]
    /\ memCall.loaded[memCall.result[1]].importance
           > memCall.loaded[memCall.result[2]].importance

\* C8: under importance, recency and access_count the returned list is
\* non-increasing in that field as loaded, also when keyword scoring chose
\* the candidates
C8_StrategyOrder ==
    (memCall.called /\ MemOrder \in {"importance", "recency", "access_count"}) =>
        \A p, q \in DOMAIN memCall.result :
            p < q => MemSortKey(memCall.result[p]) >= MemSortKey(memCall.result[q])

\* keyword scoring chose the candidates, and under access_count the entry of
\* the lower score is returned ahead of one of a higher score
C8_Witness ==
    /\ memCall.called /\ MemReplaced
    /\ MemOrder = "access_count"
    /\ Len(memCall.result) >= 2
    /\ MemScore(memCall.result[1]) < MemScore(memCall.result[2])
    /\ MemSortKey(memCall.result[1]) > MemSortKey(memCall.result[2])

\* C9: a retrieval adds exactly 1 to the stored access_count of every entry
\* it returns and stamps it with the retrieval time, leaves the other
\* counters alone, and so every counter equals the number of retrievals that
\* returned its entry
C9_AccessBookkeeping ==
    /\ Len(memReturned) = Len(memFile.entries)
    /\ \A i \in DOMAIN memFile.entries : memFile.entries[i].access_count = memReturned[i]
    /\ memCall.called =>
          \A i \in DOMAIN memCall.loaded :
              IF MemReturnedBy(i)
              THEN /\ memFile.entries[i].access_count = memCall.loaded[i].access_count + 1
                   /\ memFile.entries[i].last_accessed_at = memCall.now
              ELSE memFile.entries[i].access_count = memCall.loaded[i].access_count

\* the second retrieval that returns an entry leaves its counter at 2
C9_Witness ==
    /\ memCall.called
    /\ \E i \in DOMAIN memFile.entries :
          /\ MemReturnedBy(i)
          /\ memCall.loaded[i].access_count = 1
          /\ memFile.entries[i].access_count = 2

\* C13: an argument that is passed is the value the call works with, also
\* when it is 0 or the empty string; the book's settings count only for an
\* argument that is not passed
C13_ExplicitArgumentWins ==
    memCall.called =>
        /\ memCall.limit = IF memCall.max_memories # None THEN memCall.max_memories[1]
                           ELSE memFile.settings.max_memories_per_request
        /\ memCall.min_imp = IF memCall.min_importance # None THEN memCall.min_importance[1]
                             ELSE memFile.settings.min_importance
        /\ memCall.order = IF memCall.sort_by # None THEN memCall.sort_by[1]
                           ELSE memFile.settings.sort_by

Max(a, b) == IF a > b THEN a ELSE b

\* C14: the result holds no more entries than the effective limit (none when
\* the limit is not positive), and no more entries than that are touched
C14_AtMostLimit ==
    memCall.called =>
        /\ Len(memCall.result) <= Max(memCall.limit, 0)
        /\ Cardinality({i \in DOMAIN memCall.loaded :
                            memFile.entries[i].access_count # memCall.loaded[i].access_count})
               <= Max(memCall.limit, 0)

\* field `key` of the dict is absent or its value satisfies ok
LoadFieldOk(d, key, ok(_)) ==
    \A i \in DOMAIN d.pairs : d.pairs[i][1] = key => ok(d.pairs[i][2])

LoadListOfDicts(x) == x.t = "list" /\ \A i \in DOMAIN x.items : x.items[i].t = "dict"

LoadDictOfDicts(x) == x.t = "dict" /\ \A i \in DOMAIN x.pairs : x.pairs[i][2].t = "dict"

LoadCharacterBook(x) ==
    \/ x.t = "null"
    \/ /\ LoadListOfDicts(x)
       /\ \A i \in DOMAIN x.items : dict_keys(x.items[i]) \subseteq CharacterBookEntryFields

LoadCharacterData(x) == x.t = "dict" /\ LoadFieldOk(x, "character_book", LoadCharacterBook)

LoadPresetData(x) == x.t = "dict" /\ LoadFieldOk(x, "prompts", LoadListOfDicts)

LoadSettings(x) == x.t = "dict"

\* the value has the structure the store's own writer gives the file
LoadWellFormed(store, x) ==
    /\ x.t = "dict"
    /\ CASE store = "memories" ->
               LoadFieldOk(x, "entries", LoadListOfDicts) /\ LoadFieldOk(x, "settings", LoadSettings)
         [] store = "worldinfo" -> LoadFieldOk(x, "entries", LoadDictOfDicts)
         [] store = "characters" -> LoadFieldOk(x, "data", LoadCharacterData)
         [] store = "presets" -> LoadFieldOk(x, "data", LoadPresetData)
         [] store = "index" -> LoadFieldOk(x, "entries", LoadListOfDicts)

\* the file is there and is malformed: its text does not parse, or it
\* parses to a value of another structure
LoadMalformed ==
    \/ loadCall.file.kind = "text"
    \/ loadCall.file.kind = "json" /\ ~LoadWellFormed(loadCall.store, loadCall.file.value)

\* C16: loading a malformed file raises nothing and yields None or, for an
\* index, the default index
C16_MalformedIsNotFound ==
    (loadCall.called /\ LoadMalformed) =>
        /\ ~loadCall.outcome.raises
        /\ \/ loadCall.outcome.value = None
           \/ loadCall.outcome.value[1].default

(***************************************************************************)
(* The stores: properties                                                  *)
(***************************************************************************)

\* everything the stores persist: book files, card files, index files
StDisk == <<memDir, charIndex, charFiles, presetIndex, presetFiles, wiIndex, wiFiles>>

\* the call is a delete or a toggle whose id the store, as it is before the
\* call, neither files nor lists
StMissingId(call) ==
    CASE call.op \in {"delete_character", "activate_character"} ->
            call.sid \notin charFiles /\ ~HasId(charIndex.entries, call.sid)
      [] call.op \in {"delete_preset", "activate_preset"} ->
            call.sid \notin presetFiles /\ ~HasId(presetIndex.entries, call.sid)
      [] call.op \in {"delete_world_info", "set_world_info_enabled"} ->
            call.sid \notin DOMAIN wiFiles /\ ~HasId(wiIndex, call.sid)
      [] call.op = "delete_book" -> \A b \in memDir : b.id # call.bid
      [] call.op = "delete_memory" ->
            \A b \in memDir : b.id = call.bid => call.mid \notin Range(b.entries)
      [] OTHER -> FALSE

C18_OneBookPerOwner ==
    /\ [][(stCall'.op = "get_or_create_book"
            /\ books_of_character(memDir, stCall'.character_id) # {})
          => (/\ memDir' = memDir
              /\ \E b \in memDir : b.id = stCall'.ret
                                     /\ b.character_id = stCall'.character_id)]_vars
    /\ [](\A b1, b2 \in memDir :
            b1 # b2 =>
              /\ (b1.character_id = "" \/ b1.character_id # b2.character_id)
              /\ (b1.character_id # "" \/ b2.character_id # ""
                  \/ b1.session_key = <<>> \/ b1.session_key # b2.session_key))

(***************************************************************************)
(* Memory: what a retrieval leaves alone                                   *)
(***************************************************************************)

\* the entry without its two access fields
MemOtherFields(entry) == [entry EXCEPT !.access_count = 0, !.last_accessed_at = 0]

\* C23: a retrieval changes nothing but access_count and last_accessed_at of
\* the entries it returns and the book's updated_at: the other entries keep
\* every field, the number and order of the entries and the settings stay,
\* and with an empty result the file is left as it was
C23_RetrievalFrame ==
    [][(memCall'.called /\ ~memCall.called) =>
          /\ Len(memFile'.entries) = Len(memFile.entries)
          /\ memFile'.settings = memFile.settings
          /\ \A i \in DOMAIN memFile.entries :
                IF \E p \in DOMAIN memCall'.result : memCall'.result[p] = i
                THEN MemOtherFields(memFile'.entries[i]) = MemOtherFields(memFile.entries[i])
                ELSE memFile'.entries[i] = memFile.entries[i]
          /\ memCall'.result = <<>> => memFile' = memFile]_vars

\* a retrieval of a book of three entries returned one of them: a disabled
\* entry and an eligible one that the limit cut off stayed as loaded
C23_Witness ==
    /\ memCall.called
    /\ Len(memCall.loaded) = 3
    /\ Len(memCall.result) = 1
    /\ \E i, j \in DOMAIN memCall.loaded :
          /\ ~memCall.loaded[i].enabled
          /\ j \in MemEligible /\ ~MemReturnedBy(j)
          /\ memFile.entries[i] = memCall.loaded[i]
          /\ memFile.entries[j] = memCall.loaded[j]
    /\ memFile.updated_at = memCall.now

(***************************************************************************)
(* Memory: the order under no named strategy                               *)
(***************************************************************************)

\* the candidates of the last call: the scored entries if keyword scoring
\* replaced the list, else the eligible ones
MemCandidates == IF MemReplaced THEN MemPositive ELSE MemEligible

\* i stands before j when no strategy sorts: by score, greater first and book
\* order among equals, if keyword scoring replaced the list, else book order
MemUnsortedBefore(i, j) ==
    IF MemReplaced
    THEN MemScore(i) > MemScore(j) \/ (MemScore(i) = MemScore(j) /\ i < j)
    ELSE i < j

\* C25: when the effective strategy is none of importance, recency and
\* access_count, the result is the first `limit` candidates in keyword-score
\* descending order (ties in book order) if keyword replacement happened,
\* and in the book's entry order otherwise
C25_UnknownStrategyKeepsOrder ==
    (memCall.called /\ MemOrder \notin {"importance", "recency", "access_count"}) =>
        /\ \A p \in DOMAIN memCall.result : memCall.result[p] \in MemCandidates
        /\ \A p, q \in DOMAIN memCall.result :
              p < q => MemUnsortedBefore(memCall.result[p], memCall.result[q])
        /\ Len(memCall.result) = Min(MemLimit, Cardinality(MemCandidates))
        /\ \A i \in MemCandidates :
              ~MemReturnedBy(i) =>
                  \A p \in DOMAIN memCall.result : MemUnsortedBefore(memCall.result[p], i)

\* sort_by "keyword" and keyword replacement: the entry stored later, of the
\* higher score but the lower importance, comes first
C25_Witness ==
    /\ memCall.called
    /\ MemOrder = "keyword"
    /\ MemReplaced
    /\ Len(memCall.result) >= 2
    /\ memCall.result[1] > memCall.result[2]
    /\ MemScore(memCall.result[1]) > MemScore(memCall.result[2])
    /\ memCall.loaded[memCall.result[1]].importance
           < memCall.loaded[memCall.result[2]].importance

(***************************************************************************)
(* Memory: the keyword score                                               *)
(***************************************************************************)

\* the pairs (tag position, keyword position) with the keyword in the tag,
\* case ignored, and the keywords in the lower-cased content
ScoreTagPairs(entry, keywords) ==
    {p \in (DOMAIN entry.keywords) \X (DOMAIN keywords) :
        Contains(Lower(entry.keywords[p[1]]), Lower(keywords[p[2]]))}
ScoreContentHits(entry, keywords) ==
    {j \in DOMAIN keywords : Contains(Lower(entry.content), keywords[j])}

\* C26: the score is 2 per pair (tag, keyword) with the keyword a
\* case-insensitive substring of the tag plus 1 per keyword that is a
\* substring of the lower-cased content; it is 0 exactly when no keyword
\* occurs in a tag or in the content; and an entry with one more tag, or a
\* text with more keywords, never scores less
C26_KeywordScore ==
    scoreCall.called =>
        LET e == scoreCall.entry
            kws == scoreCall.keywords
        IN  /\ scoreCall.score = 2 * Cardinality(ScoreTagPairs(e, kws))
                                 + Cardinality(ScoreContentHits(e, kws))
            /\ scoreCall.score = 0 <=>
                  \A j \in DOMAIN kws :
                      /\ ~Contains(Lower(e.content), kws[j])
                      /\ \A t \in DOMAIN e.keywords :
                            ~Contains(Lower(e.keywords[t]), Lower(kws[j]))
            /\ \A e2 \in ScoreEntries :
                  (/\ e2.content = e.content
                   /\ Len(e2.keywords) = Len(e.keywords) + 1
                   /\ SubSeq(e2.keywords, 1, Len(e.keywords)) = e.keywords) =>
                      keyword_score(e2, kws) >= scoreCall.score
            /\ \A text2 \in ScoreTexts :
                  LET kws2 == extract_keywords(text2)
                  IN  (Range(kws) \subseteq Range(kws2) /\ Len(kws2) > Len(kws)) =>
                          keyword_score(e, kws2) >= scoreCall.score

\* the keyword "cat" against the tags [Cats, cats] and the content
\* "The Cat sat": 2 + 2 + 1
C26_Witness ==
    /\ scoreCall.called
    /\ scoreCall.keywords = <<<<"c", "a", "t">>>>
    /\ Len(scoreCall.entry.keywords) = 2
    /\ Cardinality(ScoreTagPairs(scoreCall.entry, scoreCall.keywords)) = 2
    /\ scoreCall.entry.content = <<"T", "h", "e", " ", "C", "a", "t", " ", "s", "a", "t">>
    /\ scoreCall.score = 5

(***************************************************************************)
(* The stores: the active id                                               *)
(***************************************************************************)

\* C27: the active id of the character index, and of the preset index, is
\* empty or the id of an entry the index lists, after any sequence of
\* import, activate, deactivate and delete operations
C27_ActiveIsListed ==
    /\ charIndex.active = "" \/ HasId(charIndex.entries, charIndex.active)
    /\ presetIndex.active = "" \/ HasId(presetIndex.entries, presetIndex.active)

(***************************************************************************)
(* Memory: a retrieval repeated                                            *)
(***************************************************************************)

\* the last call repeated the call before it
MemRepeated == memCall.called /\ memCall.previous # None

\* C28: a retrieval repeated with identical arguments and nothing in between
\* returns the same set of entries as the call before it, under every
\* strategy
C28_SameSetOnRepeat ==
    MemRepeated => Range(memCall.result) = Range(memCall.previous[1])

\* under recency, with limit 1, the repeated call returned the entry the
\* first call returned, although an eligible entry was left out
C28_Witness ==
    /\ MemRepeated
    /\ MemOrder = "recency"
    /\ Len(memCall.result) = 1
    /\ memCall.result = memCall.previous[1]
    /\ \E i \in MemEligible : ~MemReturnedBy(i)

\* C29: under importance, recency and access_count the repeated call
\* returns its entries in the order of the call before it
C29_SameOrderOnRepeat ==
    (MemRepeated /\ MemOrder \in {"importance", "recency", "access_count"}) =>
        memCall.result = memCall.previous[1]

\* C29 as amended: under importance and access_count the repeated call
\* returns the list of the call before it; under recency it returns the same
\* entries, which the call before stamped with one instant, in the order of
\* the candidates (keyword score, or book order)
C29_RepeatOrderAmended ==
    MemRepeated =>
        /\ MemOrder \in {"importance", "access_count"} =>
              memCall.result = memCall.previous[1]
        /\ MemOrder = "recency" =>
              /\ Range(memCall.result) = Range(memCall.previous[1])
              /\ \A p, q \in DOMAIN memCall.result :
                    p < q => MemUnsortedBefore(memCall.result[p], memCall.result[q])

\* under recency the first call returned [2, 1] and the repeated call [1, 2]
C29_Witness ==
    /\ MemRepeated
    /\ MemOrder = "recency"
    /\ memCall.previous[1] = <<2, 1>>
    /\ memCall.result = <<1, 2>>

(***************************************************************************)
(* Two callers on one book                                                 *)
(***************************************************************************)

\* both callers have returned and each loaded before either saved
RaceRaced ==
    /\ \A p \in RaceProcs : raceProc[p].pc = "done" /\ raceProc[p].seen = 0
    /\ raceSaves # <<>>

RaceSaved(p) == \E i \in DOMAIN raceSaves : raceSaves[i] = p

RaceIds(book) == {book.entries[i].id : i \in DOMAIN book.entries}

\* the ids of the entries the retrieval of caller p returned
RaceReturnedIds(p) ==
    {raceProc[p].loaded.entries[raceProc[p].result[i]].id : i \in DOMAIN raceProc[p].result}

RaceCount(book, id) ==
    LET i == CHOOSE j \in DOMAIN book.entries : book.entries[j].id = id
    IN  book.entries[i].access_count

\* C30: when two memory-book operations on one book both load before either
\* saves, the book file holds the later saver's view alone: an entry that two
\* retrievals both returned has its access_count increased by 1, not by 2; an
\* entry add_memory appended before a retrieval's save is gone from the file,
\* an entry delete_memory removed before a retrieval's save is back in it, and
\* a retrieval's counts saved before an add_memory's or delete_memory's save
\* are back to what they were
C30_LaterSaveWins ==
    RaceRaced =>
        LET w == raceSaves[Len(raceSaves)]
            o == 3 - w
        IN  /\ (raceProc[w].op = "retrieve" /\ raceProc[o].op = "retrieve") =>
                  \A id \in RaceReturnedIds(w) \cap RaceReturnedIds(o) :
                      RaceCount(raceFile, id) = RaceCount(raceStart, id) + 1
            /\ (raceProc[w].op = "retrieve" /\ raceProc[o].op = "add") =>
                  raceProc[o].id \notin RaceIds(raceFile)
            /\ (raceProc[w].op = "retrieve" /\ raceProc[o].op = "delete") =>
                  RaceIds(raceFile) = RaceIds(raceStart)
            /\ (raceProc[w].op \in {"add", "delete"} /\ raceProc[o].op = "retrieve") =>
                  \A id \in RaceIds(raceFile) \cap RaceIds(raceStart) :
                      RaceCount(raceFile, id) = RaceCount(raceStart, id)

\* two retrievals both returned entry 1, both saved, and the file counts one
\* access of it
C30_Witness ==
    /\ RaceRaced
    /\ \A p \in RaceProcs : raceProc[p].op = "retrieve" /\ RaceSaved(p)
    /\ 1 \in RaceReturnedIds(1) \cap RaceReturnedIds(2)
    /\ RaceCount(raceFile, 1) = 1

\* add_memory saved entry 8 and a retrieval that had loaded before saved
\* after it: the file no longer holds entry 8
RaceLostAdd ==
    /\ RaceRaced
    /\ raceSaves = <<1, 2>>
    /\ raceProc[1].op = "add" /\ raceProc[1].id = 8
    /\ raceProc[2].op = "retrieve"
    /\ 8 \notin RaceIds(raceFile)

\* delete_memory removed entry 1 and saved, and a retrieval that had loaded
\* before saved after it: the file holds entry 1 again
RaceLostDelete ==
    /\ RaceRaced
    /\ raceSaves = <<1, 2>>
    /\ raceProc[1].op = "delete" /\ raceProc[1].id = 1
    /\ raceProc[2].op = "retrieve"
    /\ 1 \in RaceIds(raceFile)
====
